---- MODULE Spec2Model ----
(***************************************************************************)
(* Model of the Spotify MCP server: the token cache (AuthManager), the    *)
(* HTTP request client (SpotifyApi), the domain handlers, the desktop      *)
(* scripting bridge and the tool dispatcher (SpotifyServer).               *)
(*                                                                         *)
(* A JavaScript string is modelled by its colon-delimited segments, i.e.   *)
(* by the value of s.split(':'):  "spotify:track:abc" is                   *)
(* <<"spotify", "track", "abc">> and "abc" is <<"abc">>.                   *)
(***************************************************************************)
EXTENDS Integers, Sequences, FiniteSets, TLC

(***************************************************************************)
(* Bounds of the model.                                                    *)
(***************************************************************************)
NInv == 2          \* invocation slots the host may use
MaxTicks == 3      \* clock ticks the model follows
MaxTok == 2        \* distinct tokens the authorization server hands out
MaxOver == 1       \* how far over a list maximum the id lists go
MaxParams == 3     \* entries of a mapping given to buildQueryString

(***************************************************************************)
(* Program constants.                                                      *)
(***************************************************************************)
MsPerSecond == 1000        \* auth.ts:37  expires_in * 1000
DefaultLimit == 20         \* handlers: const { limit = 20 } = args
DefaultOffset == 0         \* handlers: const { offset = 0 } = args
MinLimit == 1              \* handlers: limit < 1
MaxPageLimit == 50         \* handlers: limit > 50
MaxRecLimit == 100         \* tracks.ts:55  limit > 100
MaxArtistIds == 50         \* artists.ts:31
MaxAlbumIds == 20          \* part_000:51
MaxAudiobookIds == 50      \* audiobooks.ts:32

TickMs == MsPerSecond      \* the clock advances one second per tick

(***************************************************************************)
(* JavaScript values.                                                      *)
(***************************************************************************)
Undefined == [type |-> "undefined", n |-> 0, segs |-> <<>>, items |-> <<>>]
Null == [type |-> "null", n |-> 0, segs |-> <<>>, items |-> <<>>]
Num(k) == [type |-> "number", n |-> k, segs |-> <<>>, items |-> <<>>]
Str(s) == [type |-> "string", n |-> 0, segs |-> s, items |-> <<>>]
Arr(xs) == [type |-> "array", n |-> 0, segs |-> <<>>, items |-> xs]
Obj == [type |-> "object", n |-> 0, segs |-> <<>>, items |-> <<>>]

\* args.field: undefined when the key is absent
Get(args, field) == IF field \in DOMAIN args THEN args[field] ELSE Undefined

\* const { field = dflt } = args: the default replaces undefined only
GetOr(args, field, dflt) ==
  IF Get(args, field).type = "undefined" THEN dflt ELSE Get(args, field)

\* truthiness of a value as JavaScript's ! operator sees it
Truthy(v) ==
  CASE v.type = "undefined" -> FALSE
    [] v.type = "null" -> FALSE
    [] v.type = "number" -> v.n # 0
    [] v.type = "string" -> v.segs # <<"">>
    [] OTHER -> TRUE

\* mutant: any kind of Spotify URI passes
StartsWithSpotify_AnyKind(s, kind) ==
  /\ Len(s.segs) >= 3
  /\ s.segs[1] = "spotify"

\* s.startsWith('spotify:<kind>:')
StartsWithSpotify(s, kind) ==
  /\ Len(s.segs) >= 3
  /\ s.segs[1] = "spotify"
  /\ s.segs[2] = kind

\* mutant: the prefix of any kind of Spotify URI is stripped
extractId_AnyKind(kind, id) ==
  IF Len(id.segs) >= 3 /\ id.segs[1] = "spotify"
  THEN Str(<<id.segs[3]>>) ELSE id

\* mutant: everything after the prefix is kept
extractId_Remainder(kind, id) ==
  IF StartsWithSpotify(id, kind) THEN Str(SubSeq(id.segs, 3, Len(id.segs))) ELSE id

\* id.startsWith('spotify:<kind>:') ? id.split(':')[2] : id
extractId(kind, id) ==
  IF StartsWithSpotify(id, kind) THEN Str(<<id.segs[3]>>) ELSE id

\* a + ',' + b on segment form
ConcatComma(a, b) ==
  SubSeq(a, 1, Len(a) - 1) \o <<a[Len(a)] \o "," \o b[1]>> \o Tail(b)

\* xs.join(','), xs a sequence of strings
RECURSIVE JoinSegs(_)
JoinSegs(xs) ==
  IF xs = <<>> THEN <<"">>
  ELSE IF Len(xs) = 1 THEN xs[1].segs
  ELSE LET h == Len(xs) \div 2
       IN  ConcatComma(JoinSegs(SubSeq(xs, 1, h)),
                       JoinSegs(SubSeq(xs, h + 1, Len(xs))))

Join(xs) == Str(JoinSegs(xs))

\* xs.map(f) for an extract function of one kind
MapExtract(kind, xs) == [i \in 1..Len(xs) |-> extractId(kind, xs[i])]

(***************************************************************************)
(* Errors.  mcp tells an McpError from any other thrown value.             *)
(***************************************************************************)
NoErr == [mcp |-> FALSE, code |-> "none", msg |-> <<>>]
McpError(code, msg) == [mcp |-> TRUE, code |-> code, msg |-> msg]
TypeError(what) == [mcp |-> FALSE, code |-> "TypeError", msg |-> <<what>>]

(***************************************************************************)
(* SpotifyApi.buildQueryString.  params is the sequence of the object's    *)
(* entries in insertion order.  The result is the query string: prefix is  *)
(* "?" or "" and pairs are the key=value pairs joined with "&"; enc counts *)
(* the URL-encoding passes the value went through.                         *)
(***************************************************************************)
Entry(key, val) == [key |-> key, val |-> val, enc |-> 0]
EncodedEntry(key, val) == [key |-> key, val |-> val, enc |-> 1]

\* value.toString() throws on null
ToStringThrows(params) ==
  \E i \in 1..Len(params) : params[i].val.type = "null"

\* value.toString()
ValueToString(v) ==
  IF v.type = "number" THEN Str(<<ToString(v.n)>>) ELSE v

RECURSIVE DefinedPairs(_)
DefinedPairs(params) ==
  IF params = <<>> THEN <<>>
  ELSE IF params[1].val.type = "undefined" THEN DefinedPairs(Tail(params))
  ELSE <<[key |-> params[1].key,
          val |-> ValueToString(params[1].val),
          enc |-> params[1].enc + 1]>> \o DefinedPairs(Tail(params))

\* mutant: the question mark is written even when no pair follows it
buildQueryString_AlwaysMark(params) ==
  [prefix |-> "?", pairs |-> DefinedPairs(params)]

buildQueryString(params) ==
  LET pairs == DefinedPairs(params)
  IN  [prefix |-> IF pairs = <<>> THEN "" ELSE "?", pairs |-> pairs]

EmptyQuery == [prefix |-> "", pairs |-> <<>>]

(***************************************************************************)
(* What a handler does before its first suspension: it throws, or it calls *)
(* SpotifyApi.makeRequest, or it asks for the token, or it submits a       *)
(* script to the scripting runtime.                                        *)
(***************************************************************************)
NoReq == [method |-> "none", route |-> "none", id |-> Undefined,
          inline |-> EmptyQuery, qs |-> EmptyQuery, body |-> <<>>]
NoScript == [template |-> "none", uri |-> Undefined]

Throw(e) == [kind |-> "throw", err |-> e, req |-> NoReq, script |-> NoScript]
MakeRequest(method, route, id, inline, qs, body) ==
  [kind |-> "request", err |-> NoErr,
   req |-> [method |-> method, route |-> route, id |-> id,
            inline |-> inline, qs |-> qs, body |-> body],
   script |-> NoScript]
WantToken == [kind |-> "token", err |-> NoErr, req |-> NoReq, script |-> NoScript]
RunScript(template, uri) ==
  [kind |-> "script", err |-> NoErr, req |-> NoReq,
   script |-> [template |-> template, uri |-> uri]]

InvalidParams(msg) == Throw(McpError("InvalidParams", msg))

\* the literal `?key=${value}` a handler writes into the path itself
Inline(key, val) == [prefix |-> "?", pairs |-> <<Entry(key, val)>>]

\* x.startsWith(...) on a value that is not a string
NotAString(v) == v.type # "string"
\* x.length on null or undefined
NoLength(v) == v.type \in {"null", "undefined"}

\* mutant: the upper bound itself is rejected
LimitOutOfRange_OffByOne(limit, max) == limit.n < MinLimit \/ limit.n >= max

\* handler step shared by the paginated listings: limit and offset bounds
LimitOutOfRange(limit, max) == limit.n < MinLimit \/ limit.n > max
OffsetNegative(offset) == offset.n < 0

(***************************************************************************)
(* ArtistsHandler                                                          *)
(***************************************************************************)
getArtist(args) ==
  IF NotAString(args.id) THEN Throw(TypeError("startsWith"))
  ELSE MakeRequest("GET", "/artists/{id}", extractId("artist", args.id),
                   EmptyQuery, EmptyQuery, <<>>)

getMultipleArtists(args) ==
  IF NoLength(args.ids) THEN Throw(TypeError("length"))
  ELSE IF Len(args.ids.items) = 0
    THEN InvalidParams(<<"At least one artist ID must be provided">>)
  ELSE IF Len(args.ids.items) > MaxArtistIds
    THEN InvalidParams(<<"Maximum of 50 artist IDs allowed">>)
  ELSE MakeRequest("GET", "/artists", Undefined,
                   Inline("ids", Join(MapExtract("artist", args.ids.items))),
                   EmptyQuery, <<>>)

\* mutant: the market is tested for presence, so an empty one passes
getArtistTopTracks_PresenceOnly(args) ==
  IF NotAString(args.id) THEN Throw(TypeError("startsWith"))
  ELSE IF "market" \notin DOMAIN args
    THEN InvalidParams(<<"market parameter is required for top tracks">>)
  ELSE MakeRequest("GET", "/artists/{id}/top-tracks",
                   extractId("artist", args.id),
                   Inline("market", args.market), EmptyQuery, <<>>)

getArtistTopTracks(args) ==
  IF NotAString(args.id) THEN Throw(TypeError("startsWith"))
  ELSE IF ~Truthy(Get(args, "market"))
    THEN InvalidParams(<<"market parameter is required for top tracks">>)
  ELSE MakeRequest("GET", "/artists/{id}/top-tracks",
                   extractId("artist", args.id),
                   Inline("market", args.market), EmptyQuery, <<>>)

getArtistRelatedArtists(args) ==
  IF NotAString(args.id) THEN Throw(TypeError("startsWith"))
  ELSE MakeRequest("GET", "/artists/{id}/related-artists",
                   extractId("artist", args.id), EmptyQuery, EmptyQuery, <<>>)

getArtistAlbums(args) ==
  LET limit == GetOr(args, "limit", Num(DefaultLimit))
      offset == GetOr(args, "offset", Num(DefaultOffset))
      groups == Get(args, "include_groups")
  IN  IF NotAString(args.id) THEN Throw(TypeError("startsWith"))
      ELSE IF LimitOutOfRange(limit, MaxPageLimit)
        THEN InvalidParams(<<"Limit must be between 1 and 50">>)
      ELSE IF OffsetNegative(offset)
        THEN InvalidParams(<<"Offset must be non-negative">>)
      ELSE MakeRequest("GET", "/artists/{id}/albums",
             extractId("artist", args.id), EmptyQuery,
             buildQueryString(<<Entry("limit", limit), Entry("offset", offset),
               Entry("include_groups",
                     IF groups.type = "array" THEN Join(groups.items)
                     ELSE Undefined)>>),
             <<>>)

(***************************************************************************)
(* AlbumsHandler                                                           *)
(***************************************************************************)
getAlbum(args) ==
  IF NotAString(args.id) THEN Throw(TypeError("startsWith"))
  ELSE MakeRequest("GET", "/albums/{id}", extractId("album", args.id),
                   EmptyQuery, EmptyQuery, <<>>)

\* mutant: the album list is checked against the artists' maximum
getMultipleAlbums_ArtistMax(args) ==
  IF NoLength(args.ids) THEN Throw(TypeError("length"))
  ELSE IF Len(args.ids.items) = 0
    THEN InvalidParams(<<"At least one album ID must be provided">>)
  ELSE IF Len(args.ids.items) > MaxArtistIds
    THEN InvalidParams(<<"Maximum of 20 album IDs allowed">>)
  ELSE MakeRequest("GET", "/albums", Undefined,
                   Inline("ids", Join(MapExtract("album", args.ids.items))),
                   EmptyQuery, <<>>)

getMultipleAlbums(args) ==
  IF NoLength(args.ids) THEN Throw(TypeError("length"))
  ELSE IF Len(args.ids.items) = 0
    THEN InvalidParams(<<"At least one album ID must be provided">>)
  ELSE IF Len(args.ids.items) > MaxAlbumIds
    THEN InvalidParams(<<"Maximum of 20 album IDs allowed">>)
  ELSE MakeRequest("GET", "/albums", Undefined,
                   Inline("ids", Join(MapExtract("album", args.ids.items))),
                   EmptyQuery, <<>>)

getAlbumTracks(args) ==
  LET limit == GetOr(args, "limit", Num(DefaultLimit))
      offset == GetOr(args, "offset", Num(DefaultOffset))
  IN  IF NotAString(args.id) THEN Throw(TypeError("startsWith"))
      ELSE IF LimitOutOfRange(limit, MaxPageLimit)
        THEN InvalidParams(<<"Limit must be between 1 and 50">>)
      ELSE IF OffsetNegative(offset)
        THEN InvalidParams(<<"Offset must be non-negative">>)
      ELSE MakeRequest("GET", "/albums/{id}/tracks",
             extractId("album", args.id), EmptyQuery,
             buildQueryString(<<Entry("limit", limit), Entry("offset", offset)>>),
             <<>>)

getNewReleases(args) ==
  LET limit == GetOr(args, "limit", Num(DefaultLimit))
      offset == GetOr(args, "offset", Num(DefaultOffset))
  IN  IF LimitOutOfRange(limit, MaxPageLimit)
        THEN InvalidParams(<<"Limit must be between 1 and 50">>)
      ELSE IF OffsetNegative(offset)
        THEN InvalidParams(<<"Offset must be non-negative">>)
      ELSE MakeRequest("GET", "/browse/new-releases", Undefined, EmptyQuery,
             buildQueryString(<<Entry("country", Get(args, "country")),
                                Entry("limit", limit), Entry("offset", offset)>>),
             <<>>)

(***************************************************************************)
(* TracksHandler                                                           *)
(***************************************************************************)
getTrack(args) ==
  IF NotAString(args.id) THEN Throw(TypeError("startsWith"))
  ELSE MakeRequest("GET", "/tracks/{id}", extractId("track", args.id),
                   EmptyQuery, EmptyQuery, <<>>)

\* encodeURIComponent(v): null is rendered as the text "null"
encodeURIComponent(v) == IF v.type = "null" THEN Str(<<"null">>) ELSE v

search(args) ==
  LET limit == GetOr(args, "limit", Num(DefaultLimit))
      params == <<EncodedEntry("q", encodeURIComponent(args.query)),
                  Entry("type", args.type), Entry("limit", limit)>>
  IN  IF LimitOutOfRange(limit, MaxPageLimit)
        THEN InvalidParams(<<"Limit must be between 1 and 50">>)
      ELSE IF ToStringThrows(params) THEN Throw(TypeError("toString"))
      ELSE MakeRequest("GET", "/search", Undefined, EmptyQuery,
                       buildQueryString(params), <<>>)

\* mutant: an empty list is joined too, giving the empty string
JoinOrUndefined_Always(ids) == Join(ids)

\* ids.length ? ids.join(',') : undefined
JoinOrUndefined(ids) == IF Len(ids) # 0 THEN Join(ids) ELSE Undefined

getRecommendations(args) ==
  LET seed_tracks == GetOr(args, "seed_tracks", Arr(<<>>)).items
      seed_artists == GetOr(args, "seed_artists", Arr(<<>>)).items
      seed_genres == GetOr(args, "seed_genres", Arr(<<>>)).items
      limit == GetOr(args, "limit", Num(DefaultLimit))
      trackIds == MapExtract("track", seed_tracks)
      artistIds == MapExtract("artist", seed_artists)
  IN  IF Len(seed_tracks) + Len(seed_artists) + Len(seed_genres) = 0
        THEN InvalidParams(<<"At least one seed (tracks, artists, or genres) must be provided">>)
      ELSE IF LimitOutOfRange(limit, MaxRecLimit)
        THEN InvalidParams(<<"Limit must be between 1 and 100">>)
      ELSE MakeRequest("GET", "/recommendations", Undefined, EmptyQuery,
             buildQueryString(<<Entry("seed_tracks", JoinOrUndefined(trackIds)),
                                Entry("seed_artists", JoinOrUndefined(artistIds)),
                                Entry("seed_genres", JoinOrUndefined(seed_genres)),
                                Entry("limit", limit)>>),
             <<>>)

getAvailableGenres ==
  MakeRequest("GET", "/recommendations/available-genre-seeds", Undefined,
              EmptyQuery, EmptyQuery, <<>>)

(***************************************************************************)
(* AudiobooksHandler                                                       *)
(***************************************************************************)
getAudiobook(args) ==
  IF NotAString(args.id) THEN Throw(TypeError("startsWith"))
  ELSE MakeRequest("GET", "/audiobooks/{id}", extractId("audiobook", args.id),
                   EmptyQuery,
                   buildQueryString(<<Entry("market", Get(args, "market"))>>),
                   <<>>)

getMultipleAudiobooks(args) ==
  IF NoLength(args.ids) THEN Throw(TypeError("length"))
  ELSE IF Len(args.ids.items) = 0
    THEN InvalidParams(<<"At least one audiobook ID must be provided">>)
  ELSE IF Len(args.ids.items) > MaxAudiobookIds
    THEN InvalidParams(<<"Maximum of 50 audiobook IDs allowed">>)
  ELSE MakeRequest("GET", "/audiobooks", Undefined,
                   Inline("ids", Join(MapExtract("audiobook", args.ids.items))),
                   buildQueryString(<<Entry("market", Get(args, "market"))>>),
                   <<>>)

getAudiobookChapters(args) ==
  IF NotAString(args.id) THEN Throw(TypeError("startsWith"))
  ELSE MakeRequest("GET", "/audiobooks/{id}/chapters",
                   extractId("audiobook", args.id), EmptyQuery,
                   buildQueryString(<<Entry("market", Get(args, "market")),
                                      Entry("limit", Get(args, "limit")),
                                      Entry("offset", Get(args, "offset"))>>),
                   <<>>)

(***************************************************************************)
(* PlaylistsHandler                                                        *)
(***************************************************************************)
\* { ...(v !== undefined && { key: v }) }: the entries that are defined
RECURSIVE DefinedEntries(_)
DefinedEntries(entries) ==
  IF entries = <<>> THEN <<>>
  ELSE IF entries[1].val.type = "undefined" THEN DefinedEntries(Tail(entries))
  ELSE <<entries[1]>> \o DefinedEntries(Tail(entries))

getPlaylist(args) ==
  IF NotAString(args.id) THEN Throw(TypeError("startsWith"))
  ELSE MakeRequest("GET", "/playlists/{id}", extractId("playlist", args.id),
                   EmptyQuery,
                   buildQueryString(<<Entry("market", Get(args, "market"))>>),
                   <<>>)

PlaylistPageParams(args) ==
  <<Entry("market", Get(args, "market"))>>
  \o DefinedEntries(<<Entry("limit", Get(args, "limit")),
                      Entry("offset", Get(args, "offset")),
                      Entry("fields", Get(args, "fields"))>>)

getPlaylistTracks(args) ==
  IF NotAString(args.id) THEN Throw(TypeError("startsWith"))
  ELSE MakeRequest("GET", "/playlists/{id}/tracks",
                   extractId("playlist", args.id), EmptyQuery,
                   buildQueryString(PlaylistPageParams(args)), <<>>)

getPlaylistItems(args) ==
  IF NotAString(args.id) THEN Throw(TypeError("startsWith"))
  ELSE MakeRequest("GET", "/playlists/{id}/items",
                   extractId("playlist", args.id), EmptyQuery,
                   buildQueryString(PlaylistPageParams(args)), <<>>)

modifyPlaylist(args) ==
  IF NotAString(args.id) THEN Throw(TypeError("startsWith"))
  ELSE MakeRequest("PUT", "/playlists/{id}", extractId("playlist", args.id),
                   EmptyQuery, EmptyQuery,
                   DefinedEntries(<<Entry("name", Get(args, "name")),
                                    Entry("public", Get(args, "public")),
                                    Entry("collaborative", Get(args, "collaborative")),
                                    Entry("description", Get(args, "description"))>>))

addTracksToPlaylist(args) ==
  IF NotAString(args.id) THEN Throw(TypeError("startsWith"))
  ELSE MakeRequest("POST", "/playlists/{id}/tracks",
                   extractId("playlist", args.id), EmptyQuery, EmptyQuery,
                   <<Entry("uris", args.uris)>>
                   \o DefinedEntries(<<Entry("position", Get(args, "position"))>>))

removeTracksFromPlaylist(args) ==
  IF NotAString(args.id) THEN Throw(TypeError("startsWith"))
  ELSE MakeRequest("DELETE", "/playlists/{id}/tracks",
                   extractId("playlist", args.id), EmptyQuery, EmptyQuery,
                   <<Entry("tracks", args.tracks)>>
                   \o DefinedEntries(<<Entry("snapshot_id", Get(args, "snapshot_id"))>>))

\* PlaylistsHandler.getCurrentUserPlaylists is called by the dispatcher but
\* its body is not among the sources; it follows the other playlist listings.
getCurrentUserPlaylists(args) ==
  MakeRequest("GET", "/me/playlists", Undefined, EmptyQuery,
              buildQueryString(DefinedEntries(<<Entry("limit", Get(args, "limit")),
                                                Entry("offset", Get(args, "offset"))>>)),
              <<>>)

(***************************************************************************)
(* SpotifyServer: argument validation and the dispatch switch              *)
(***************************************************************************)
ArgumentsRequired == McpError("InvalidParams", <<"Arguments are required">>)
MissingField(field) ==
  McpError("InvalidParams", <<"Missing required field", field>>)

\* mutant: the loop tests the field's value instead of its presence
RECURSIVE FirstMissing_Truthy(_, _)
FirstMissing_Truthy(args, requiredFields) ==
  IF requiredFields = <<>> THEN NoErr
  ELSE IF ~Truthy(Get(args, Head(requiredFields)))
    THEN MissingField(Head(requiredFields))
  ELSE FirstMissing_Truthy(args, Tail(requiredFields))

\* validateArgs: NoErr when it returns, the McpError it throws otherwise
RECURSIVE FirstMissing(_, _)
FirstMissing(args, requiredFields) ==
  IF requiredFields = <<>> THEN NoErr
  ELSE IF ~(Head(requiredFields) \in DOMAIN args)
    THEN MissingField(Head(requiredFields))
  ELSE FirstMissing(args, Tail(requiredFields))

validateArgs(hasArgs, args, requiredFields) ==
  IF ~hasArgs THEN ArgumentsRequired
  ELSE FirstMissing(args, requiredFields)

EmptyArgs == [k \in {} |-> Undefined]

\* request.params.arguments || {}
OrEmpty(hasArgs, args) == IF hasArgs THEN args ELSE EmptyArgs

ApiTools ==
  {"search", "get_artist", "get_multiple_artists", "get_artist_top_tracks",
   "get_artist_related_artists", "get_artist_albums", "get_album",
   "get_album_tracks", "get_multiple_albums", "get_track",
   "get_available_genres", "get_new_releases", "get_recommendations",
   "get_audiobook", "get_multiple_audiobooks", "get_audiobook_chapters",
   "get_playlist", "get_playlist_tracks", "get_playlist_items",
   "modify_playlist", "add_tracks_to_playlist", "remove_tracks_from_playlist",
   "get_current_user_playlists"}
ScriptTools ==
  {"spotify_play_pause", "spotify_next", "spotify_previous",
   "spotify_get_current_track", "spotify_play_track"}
\* the case labels of the switch
DispatchTable == {"get_access_token"} \cup ApiTools \cup ScriptTools

\* inputSchema.required of each listed tool (absent is the empty list)
SchemaRequired(tool) ==
  CASE tool = "search" -> <<"query", "type">>
    [] tool \in {"get_artist", "get_artist_top_tracks", "get_artist_related_artists",
                 "get_artist_albums", "get_album", "get_album_tracks", "get_track",
                 "get_audiobook", "get_audiobook_chapters", "get_playlist",
                 "get_playlist_tracks", "get_playlist_items", "modify_playlist"}
         -> <<"id">>
    [] tool \in {"get_multiple_artists", "get_multiple_albums",
                 "get_multiple_audiobooks"} -> <<"ids">>
    [] tool = "add_tracks_to_playlist" -> <<"id", "uris">>
    [] tool = "remove_tracks_from_playlist" -> <<"id", "tracks">>
    [] tool = "spotify_play_track" -> <<"uri">>
    [] OTHER -> <<>>

\* mutant: add_tracks_to_playlist is checked for its id only
RequiredFields_NoUris(tool) ==
  CASE tool = "search" -> <<"query", "type">>
    [] tool \in {"get_multiple_artists", "get_multiple_albums",
                 "get_multiple_audiobooks"} -> <<"ids">>
    [] tool = "remove_tracks_from_playlist" -> <<"id", "tracks">>
    [] tool = "spotify_play_track" -> <<"uri">>
    [] tool \in {"get_access_token", "get_available_genres", "get_new_releases",
                 "get_recommendations", "get_current_user_playlists",
                 "spotify_play_pause", "spotify_next", "spotify_previous",
                 "spotify_get_current_track"} -> <<>>
    [] OTHER -> <<"id">>

\* the requiredFields each case passes to validateArgs
RequiredFields(tool) ==
  CASE tool = "search" -> <<"query", "type">>
    [] tool \in {"get_multiple_artists", "get_multiple_albums",
                 "get_multiple_audiobooks"} -> <<"ids">>
    [] tool = "add_tracks_to_playlist" -> <<"id", "uris">>
    [] tool = "remove_tracks_from_playlist" -> <<"id", "tracks">>
    [] tool = "spotify_play_track" -> <<"uri">>
    [] tool \in {"get_access_token", "get_available_genres", "get_new_releases",
                 "get_recommendations", "get_current_user_playlists",
                 "spotify_play_pause", "spotify_next", "spotify_previous",
                 "spotify_get_current_track"} -> <<>>
    [] OTHER -> <<"id">>

\* mutant: only get_available_genres goes without an argument object
ValidatesRaw_NoDefault(tool) ==
  tool \in (ApiTools \cup {"spotify_play_track"}) \ {"get_available_genres"}

\* the cases that call validateArgs on request.params.arguments as received
ValidatesRaw(tool) ==
  tool \in (ApiTools \cup {"spotify_play_track"})
           \ {"get_available_genres", "get_new_releases", "get_recommendations",
              "get_current_user_playlists"}

\* the handler call of each case
Handler(tool, args) ==
  CASE tool = "get_access_token" -> WantToken
    [] tool = "search" -> search(args)
    [] tool = "get_artist" -> getArtist(args)
    [] tool = "get_multiple_artists" -> getMultipleArtists(args)
    [] tool = "get_artist_top_tracks" -> getArtistTopTracks(args)
    [] tool = "get_artist_related_artists" -> getArtistRelatedArtists(args)
    [] tool = "get_artist_albums" -> getArtistAlbums(args)
    [] tool = "get_album" -> getAlbum(args)
    [] tool = "get_album_tracks" -> getAlbumTracks(args)
    [] tool = "get_multiple_albums" -> getMultipleAlbums(args)
    [] tool = "get_track" -> getTrack(args)
    [] tool = "get_available_genres" -> getAvailableGenres
    [] tool = "get_new_releases" -> getNewReleases(args)
    [] tool = "get_recommendations" -> getRecommendations(args)
    [] tool = "get_audiobook" -> getAudiobook(args)
    [] tool = "get_multiple_audiobooks" -> getMultipleAudiobooks(args)
    [] tool = "get_audiobook_chapters" -> getAudiobookChapters(args)
    [] tool = "get_playlist" -> getPlaylist(args)
    [] tool = "get_playlist_tracks" -> getPlaylistTracks(args)
    [] tool = "get_playlist_items" -> getPlaylistItems(args)
    [] tool = "modify_playlist" -> modifyPlaylist(args)
    [] tool = "add_tracks_to_playlist" -> addTracksToPlaylist(args)
    [] tool = "remove_tracks_from_playlist" -> removeTracksFromPlaylist(args)
    [] tool = "get_current_user_playlists" -> getCurrentUserPlaylists(args)
    [] tool = "spotify_play_pause" -> RunScript("playpause", Undefined)
    [] tool = "spotify_next" -> RunScript("next track", Undefined)
    [] tool = "spotify_previous" -> RunScript("previous track", Undefined)
    [] tool = "spotify_get_current_track" -> RunScript("current track", Undefined)
    [] tool = "spotify_play_track" ->
         IF ~Truthy(args.uri) \/ ~StartsWithSpotify(args.uri, "track")
         THEN InvalidParams(<<"Invalid Spotify track URI format">>)
         ELSE RunScript("play track", args.uri)

\* the name of each entry of the tools array, in the order of the array
ToolNames ==
  <<"get_access_token", "search", "get_artist", "get_multiple_artists",
    "get_artist_top_tracks", "get_artist_related_artists", "get_artist_albums",
    "get_album", "get_album_tracks", "get_multiple_albums", "get_track",
    "get_available_genres", "get_new_releases", "get_recommendations",
    "get_audiobook", "get_multiple_audiobooks", "get_audiobook_chapters",
    "get_playlist", "get_playlist_tracks", "get_playlist_items",
    "modify_playlist", "add_tracks_to_playlist", "remove_tracks_from_playlist",
    "get_current_user_playlists", "spotify_play_pause", "spotify_next",
    "spotify_previous", "spotify_get_current_track", "spotify_play_track">>

\* the tools array the ListTools handler returns
ToolList ==
  [k \in 1..Len(ToolNames) |->
     [name |-> ToolNames[k], required |-> SchemaRequired(ToolNames[k])]]

\* mutant: the default case throws a plain Error
CallTool_PlainDefault(tool, hasArgs, args) ==
  IF tool \notin DispatchTable
    THEN Throw([mcp |-> FALSE, code |-> "Error", msg |-> <<"Unknown tool", tool>>])
  ELSE IF ValidatesRaw(tool) /\ validateArgs(hasArgs, args, RequiredFields(tool)) # NoErr
    THEN Throw(validateArgs(hasArgs, args, RequiredFields(tool)))
  ELSE Handler(tool, OrEmpty(hasArgs, args))

\* the body of the try block up to the first suspension
CallTool(tool, hasArgs, args) ==
  IF tool \notin DispatchTable
    THEN Throw(McpError("MethodNotFound", <<"Unknown tool", tool>>))
  ELSE IF ValidatesRaw(tool) /\ validateArgs(hasArgs, args, RequiredFields(tool)) # NoErr
    THEN Throw(validateArgs(hasArgs, args, RequiredFields(tool)))
  ELSE Handler(tool, OrEmpty(hasArgs, args))

\* mutant: the catch block wraps every error, McpError or not
Catch_WrapsAll(tool, error) ==
  McpError("InternalError",
           <<"Unexpected error processing tool", tool>> \o error.msg)

\* the catch block of the request handler
Catch(tool, error) ==
  IF error.mcp THEN error
  ELSE McpError("InternalError",
                <<"Unexpected error processing tool", tool>> \o error.msg)

(***************************************************************************)
(* The tool calls the host sends.                                          *)
(***************************************************************************)
Absent == [type |-> "absent", n |-> 0, segs |-> <<>>, items |-> <<>>]
Opt(key, v) == IF v.type = "absent" THEN EmptyArgs ELSE (key :> v)

OtherKind(kind) == IF kind = "album" THEN "track" ELSE "album"
BareId == Str(<<"abc">>)
UriOf(kind) == Str(<<"spotify", kind, "abc">>)
\* a URI whose third part holds a colon, and a URI of another scheme
NestedUri(kind) == Str(<<"spotify", kind, "abc", "def">>)
ForeignUri(kind) == Str(<<"deezer", kind, "abc">>)
IdChoices(kind) ==
  {Absent, Null, BareId, UriOf(kind), UriOf(OtherKind(kind)),
   NestedUri(kind), ForeignUri(kind)}
LimitChoices(max) ==
  {Absent} \cup {Num(k) : k \in {MinLimit - 1, MinLimit, max, max + 1}}
OffsetChoices == {Absent, Num(-1), Num(0)}
MarketChoices == {Absent, Str(<<"US">>)}

\* an id list of n equal elements, and the lengths around a maximum
IdList(n, e) == Arr([i \in 1..n |-> e])
ListLengths(max) == {0, 1, max} \cup ((max + 1)..(max + MaxOver))
IdsChoices(kind, max) ==
  {Absent, Null, Arr(<<BareId, UriOf(kind)>>),
   Arr(<<UriOf(kind), UriOf(OtherKind(kind))>>)}
  \cup {IdList(n, BareId) : n \in ListLengths(max)}
SeedChoices(kind) == {Absent, Arr(<<>>), Arr(<<UriOf(kind)>>)}

Call(tool, args) == [tool |-> tool, hasArgs |-> TRUE, args |-> args]
NoArgsCall(tool) == [tool |-> tool, hasArgs |-> FALSE, args |-> EmptyArgs]

IdOnlyCalls ==
  {Call(t[1], Opt("id", id)) :
     t \in {<<"get_artist", "artist">>, <<"get_artist_related_artists", "artist">>,
            <<"get_album", "album">>, <<"get_track", "track">>},
     id \in {Absent, Null, BareId, UriOf("artist"), UriOf("album"), UriOf("track"),
             NestedUri("artist"), NestedUri("album"), NestedUri("track"),
             ForeignUri("track")}}

SearchCalls ==
  {Call("search", Opt("query", q) @@ Opt("type", ty) @@ Opt("limit", l)) :
     q \in {Absent, Null, Str(<<"daft punk">>), BareId},
     ty \in {Absent, Null, Str(<<"track">>)},
     l \in LimitChoices(MaxPageLimit)}

TopTracksCalls ==
  {Call("get_artist_top_tracks", Opt("id", id) @@ Opt("market", m)) :
     id \in IdChoices("artist"), m \in MarketChoices \cup {Str(<<"">>)}}

PagedCalls ==
  {Call("get_artist_albums",
        Opt("id", id) @@ Opt("limit", l) @@ Opt("offset", o)
        @@ Opt("include_groups", g)) :
     id \in IdChoices("artist"), l \in LimitChoices(MaxPageLimit),
     o \in OffsetChoices, g \in {Absent, Arr(<<Str(<<"album">>), Str(<<"single">>)>>)}}
  \cup
  {Call("get_album_tracks", Opt("id", id) @@ Opt("limit", l) @@ Opt("offset", o)) :
     id \in IdChoices("album"), l \in LimitChoices(MaxPageLimit),
     o \in OffsetChoices}
  \cup
  {Call("get_new_releases",
        Opt("country", c) @@ Opt("limit", l) @@ Opt("offset", o)) :
     c \in MarketChoices, l \in LimitChoices(MaxPageLimit), o \in OffsetChoices}

BulkCalls ==
  {Call("get_multiple_artists", Opt("ids", ids)) :
     ids \in IdsChoices("artist", MaxArtistIds)}
  \cup
  {Call("get_multiple_albums", Opt("ids", ids)) :
     ids \in IdsChoices("album", MaxAlbumIds)}
  \cup
  {Call("get_multiple_audiobooks", Opt("ids", ids) @@ Opt("market", m)) :
     ids \in IdsChoices("audiobook", MaxAudiobookIds), m \in MarketChoices}

RecommendationCalls ==
  {Call("get_recommendations",
        Opt("seed_tracks", st) @@ Opt("seed_artists", sa)
        @@ Opt("seed_genres", sg) @@ Opt("limit", l)) :
     st \in SeedChoices("track"), sa \in SeedChoices("artist"),
     sg \in {Absent, Arr(<<>>), Arr(<<Str(<<"pop">>)>>)},
     l \in LimitChoices(MaxRecLimit)}

AudiobookCalls ==
  {Call("get_audiobook", Opt("id", id) @@ Opt("market", m)) :
     id \in IdChoices("audiobook"), m \in MarketChoices}
  \cup
  {Call("get_audiobook_chapters",
        Opt("id", id) @@ Opt("limit", l) @@ Opt("offset", o)) :
     id \in IdChoices("audiobook"), l \in {Absent, Num(0), Num(MaxPageLimit)},
     o \in {Absent, Num(-1)}}

PlaylistCalls ==
  {Call("get_playlist", Opt("id", id) @@ Opt("market", m)) :
     id \in IdChoices("playlist"), m \in MarketChoices}
  \cup
  {Call(t, Opt("id", id) @@ Opt("limit", l) @@ Opt("offset", o)) :
     t \in {"get_playlist_tracks", "get_playlist_items"},
     id \in IdChoices("playlist"), l \in {Absent, Num(0), Num(MaxRecLimit)},
     o \in {Absent, Num(-1)}}
  \cup
  {Call("modify_playlist", Opt("id", id) @@ Opt("name", nm)) :
     id \in IdChoices("playlist"), nm \in {Absent, Str(<<"mix">>)}}
  \cup
  {Call("add_tracks_to_playlist", Opt("id", id) @@ Opt("uris", u)) :
     id \in IdChoices("playlist"), u \in {Absent, Null, Arr(<<UriOf("track")>>)}}
  \cup
  {Call("remove_tracks_from_playlist", Opt("id", id) @@ Opt("tracks", tr)) :
     id \in IdChoices("playlist"), tr \in {Absent, Null, Arr(<<Obj>>)}}
  \cup
  {Call("get_current_user_playlists", Opt("limit", l) @@ Opt("offset", o)) :
     l \in {Absent, Num(0), Num(MaxPageLimit)}, o \in {Absent, Num(-1)}}

\* a track URI whose third part holds a double quote
QuotingUri == Str(<<"spotify", "track", "abc\" & (do shell script \"id\") & \"">>)
PlayTrackCalls ==
  {Call("spotify_play_track", Opt("uri", u)) :
     u \in {Absent, Null, Str(<<"">>), Str(<<"not-a-uri">>), UriOf("album"),
            UriOf("track"), QuotingUri}}

UnknownTool == "no_such_tool"

\* every call the host sends when it waits for each answer
RichCalls ==
  {NoArgsCall(t) : t \in DispatchTable \cup {UnknownTool}}
  \cup {Call(UnknownTool, Opt("id", BareId)), Call("get_access_token", EmptyArgs),
        Call("get_available_genres", EmptyArgs), Call("spotify_next", EmptyArgs)}
  \cup IdOnlyCalls \cup SearchCalls \cup TopTracksCalls \cup PagedCalls
  \cup BulkCalls \cup RecommendationCalls \cup AudiobookCalls
  \cup PlaylistCalls \cup PlayTrackCalls

\* the calls the host sends when it pipelines requests
PipelinedCalls ==
  {NoArgsCall("get_access_token"), Call("get_track", Opt("id", BareId)),
   NoArgsCall("spotify_next")}

(***************************************************************************)
(* State.                                                                  *)
(***************************************************************************)
VARIABLES
  tokenInfo,   \* AuthManager.tokenInfo: <<>> is null, else <<TokenInfo>>
  now,         \* Date.now(), in milliseconds
  inv,         \* the tool invocations, one per slot
  hostMode,    \* how the host sends its calls: one at a time or pipelined
  query        \* one application of SpotifyApi.buildQueryString

vars == <<tokenInfo, now, inv, hostMode, query>>

Slots == 1..NInv
Min(S) == CHOOSE x \in S : \A y \in S : x <= y
Tokens == 1..MaxTok
Lifetimes == {1, 2}        \* expires_in values the server answers, seconds

NoCall == [kind |-> "none", err |-> NoErr, req |-> NoReq, script |-> NoScript]
NoResult == [kind |-> "none", tok |-> 0, val |-> Undefined]
TokenText(tok) == [kind |-> "token", tok |-> tok, val |-> Undefined]
JsonText(body) == [kind |-> "json", tok |-> 0, val |-> body]
ScriptText(val) == [kind |-> "text", tok |-> 0, val |-> val]
ListText(list) == [kind |-> "list", tok |-> 0, val |-> Arr(list)]

IdleSlot ==
  [pc |-> "idle", method |-> "none", tool |-> "", hasArgs |-> FALSE,
   args |-> EmptyArgs,
   call |-> NoCall, token |-> 0, err |-> NoErr, result |-> NoResult,
   nExchange |-> 0, nRequest |-> 0, nScript |-> 0,
   raised |-> NoErr,       \* history: the error as the catch block received it
   reported |-> <<>>,      \* history: err.message of the scripting runtime's error
   returned |-> <<>>,      \* history: the result the scripting runtime handed over
   failure |-> <<>>,       \* history: the failure of the API request
   seen |-> <<>>]          \* history: the cache as it was when the call arrived

(***************************************************************************)
(* AuthManager.getAccessToken                                              *)
(***************************************************************************)
\* mutant: the comparison with expiresAt is inverted
TokenValid_Inverted(cache, t) == cache # <<>> /\ t > cache[1].expiresAt

\* this.tokenInfo && Date.now() < this.tokenInfo.expiresAt
TokenValid(cache, t) == cache # <<>> /\ t < cache[1].expiresAt

\* mutant: the lifetime in seconds is added to a time in milliseconds
RenewedToken_Seconds(tok, lifetime, t) ==
  [accessToken |-> tok, expiresAt |-> t + lifetime]

\* the TokenInfo written after a successful exchange
RenewedToken(tok, lifetime, t) ==
  [accessToken |-> tok, expiresAt |-> t + lifetime * MsPerSecond]

\* the catch block of getAccessToken
TokenError(isAxios) ==
  IF isAxios
  THEN McpError("InternalError", <<"Failed to get Spotify access token">>)
  ELSE [mcp |-> FALSE, code |-> "Error", msg |-> <<"token exchange">>]

(***************************************************************************)
(* SpotifyApi.makeRequest: the catch block                                 *)
(***************************************************************************)
\* error.response?.data of a failed request: there is no response or no body,
\* or the body is not the remote API's error envelope, or it is one
NoBody == [shape |-> "absent", text |-> ""]
OtherBody == [shape |-> "other", text |-> "Bad Gateway"]
ErrorEnvelope(text) == [shape |-> "envelope", text |-> text]

\* spotifyError?.error?.message ?? error.message
UpstreamMessage(body, message) ==
  IF body.shape = "envelope" THEN body.text ELSE message

\* mutant: an upstream rejection is reported as the caller's fault
ApiError_ClientFault(isAxios, body, message) ==
  IF isAxios
  THEN McpError("InvalidParams",
                <<"Spotify API error", UpstreamMessage(body, message)>>)
  ELSE [mcp |-> FALSE, code |-> "Error", msg |-> <<message>>]

\* mutant: the error envelope is not looked at
ApiError_TransportOnly(isAxios, body, message) ==
  IF isAxios
  THEN McpError("InternalError", <<"Spotify API error", message>>)
  ELSE [mcp |-> FALSE, code |-> "Error", msg |-> <<message>>]

ApiError(isAxios, body, message) ==
  IF isAxios
  THEN McpError("InternalError",
                <<"Spotify API error", UpstreamMessage(body, message)>>)
  ELSE [mcp |-> FALSE, code |-> "Error", msg |-> <<message>>]

(***************************************************************************)
(* SpotifyServer.executeAppleScript: the callback                          *)
(***************************************************************************)
\* err.message of the errors the scripting runtime reports
ScriptErrors == {"", "execution error: Can't get application (-1728)",
                 "execution error: syntax (-2741)"}
NotRunning(message) == message = "execution error: Can't get application (-1728)"

\* mutant: the execution-failed error does not say what the runtime reported
ScriptError_NoMessage(message) ==
  IF message # "" /\ NotRunning(message)
  THEN McpError("InternalError", <<"Spotify application not found or not running.">>)
  ELSE McpError("InternalError", <<"AppleScript execution failed", "Unknown error">>)

ScriptError(message) ==
  IF message # "" /\ NotRunning(message)
  THEN McpError("InternalError", <<"Spotify application not found or not running.">>)
  ELSE McpError("InternalError",
                <<"AppleScript execution failed",
                  IF message # "" THEN message ELSE "Unknown error">>)

\* result ? result.toString() : 'Success'
ScriptResult(result) ==
  IF Truthy(result) THEN ValueToString(result) ELSE Str(<<"Success">>)

(***************************************************************************)
(* Steps of one invocation.                                                *)
(***************************************************************************)
\* mutant: the content is returned and an error is thrown as well
Succeeded_AndThrows(slot, result) ==
  [slot EXCEPT !.pc = "done", !.result = result,
               !.err = McpError("InternalError", <<"Unexpected error processing tool">>)]

\* the request handler returns the content
Succeeded(slot, result) == [slot EXCEPT !.pc = "done", !.result = result]
\* the try block throws: the catch block decides what the host sees
Failed(slot, error) ==
  [slot EXCEPT !.pc = "done", !.raised = error, !.err = Catch(slot.tool, error)]

\* mutant: makeRequest sends whatever token the cache holds, expired or not,
\* and asks for a new one only when the cache is empty
Started_StaleToken(c, cache, t) ==
  LET call == CallTool(c.tool, c.hasArgs, c.args)
      slot == [IdleSlot EXCEPT !.method = "tools/call",
                               !.tool = c.tool, !.hasArgs = c.hasArgs,
                               !.args = c.args, !.call = call,
                               !.seen = cache]
  IN  CASE call.kind = "throw" ->
             Failed(slot, call.err)
        [] call.kind = "script" ->
             [slot EXCEPT !.pc = "script", !.nScript = 1]
        [] call.kind = "token" /\ TokenValid(cache, t) ->
             Succeeded(slot, TokenText(cache[1].accessToken))
        [] call.kind = "request" /\ cache # <<>> ->
             [slot EXCEPT !.pc = "request", !.token = cache[1].accessToken,
                          !.nRequest = 1]
        [] OTHER ->
             [slot EXCEPT !.pc = "exchange", !.nExchange = 1]

\* mutant: a call that finds an exchange call in flight waits for that one
Started_Coalesced(c, cache, t) ==
  LET call == CallTool(c.tool, c.hasArgs, c.args)
      slot == [IdleSlot EXCEPT !.method = "tools/call",
                               !.tool = c.tool, !.hasArgs = c.hasArgs,
                               !.args = c.args, !.call = call,
                               !.seen = cache]
  IN  CASE call.kind = "throw" ->
             Failed(slot, call.err)
        [] call.kind = "script" ->
             [slot EXCEPT !.pc = "script", !.nScript = 1]
        [] call.kind = "token" /\ TokenValid(cache, t) ->
             Succeeded(slot, TokenText(cache[1].accessToken))
        [] call.kind = "request" /\ TokenValid(cache, t) ->
             [slot EXCEPT !.pc = "request", !.token = cache[1].accessToken,
                          !.nRequest = 1]
        [] OTHER ->
             [slot EXCEPT !.pc = "exchange",
                          !.nExchange = IF \E j \in Slots : inv[j].pc = "exchange"
                                        THEN 0 ELSE 1]

\* the host's call arrives: the switch runs up to the first suspension
Started(c, cache, t) ==
  LET call == CallTool(c.tool, c.hasArgs, c.args)
      slot == [IdleSlot EXCEPT !.method = "tools/call",
                               !.tool = c.tool, !.hasArgs = c.hasArgs,
                               !.args = c.args, !.call = call,
                               !.seen = cache]
  IN  CASE call.kind = "throw" ->
             Failed(slot, call.err)
        [] call.kind = "script" ->
             [slot EXCEPT !.pc = "script", !.nScript = 1]
        [] call.kind = "token" /\ TokenValid(cache, t) ->
             Succeeded(slot, TokenText(cache[1].accessToken))
        [] call.kind = "request" /\ TokenValid(cache, t) ->
             [slot EXCEPT !.pc = "request", !.token = cache[1].accessToken,
                          !.nRequest = 1]
        [] OTHER ->
             [slot EXCEPT !.pc = "exchange", !.nExchange = 1]

\* the calls the host may send to slot i now
MaySend(i) ==
  IF hostMode = "sequential"
  THEN IF i = 1 /\ \A j \in Slots : inv[j].pc = "idle"
       THEN RichCalls ELSE {}
  ELSE PipelinedCalls

Invoke(i, c) ==
  /\ inv[i].pc = "idle"
  /\ c \in MaySend(i)
  /\ inv' = [inv EXCEPT ![i] = Started(c, tokenInfo, now)]
  /\ UNCHANGED <<tokenInfo, now, hostMode, query>>

\* mutant: a renewal changes the token of the cached TokenInfo in place and
\* leaves its expiresAt as it was
ExchangeSucceed_TokenOnly(i, tok, lifetime) ==
  /\ inv[i].pc = "exchange"
  /\ tokenInfo' = IF tokenInfo = <<>>
                  THEN <<RenewedToken(tok, lifetime, now)>>
                  ELSE <<[tokenInfo[1] EXCEPT !.accessToken = tok]>>
  /\ inv' = [inv EXCEPT ![i] =
       IF inv[i].call.kind = "token"
       THEN Succeeded(inv[i], TokenText(tokenInfo'[1].accessToken))
       ELSE [inv[i] EXCEPT !.pc = "request",
                           !.token = tokenInfo'[1].accessToken,
                           !.nRequest = @ + 1]]
  /\ UNCHANGED <<now, hostMode, query>>

\* the authorization server answers the exchange call
ExchangeSucceed(i, tok, lifetime) ==
  /\ inv[i].pc = "exchange"
  /\ tokenInfo' = <<RenewedToken(tok, lifetime, now)>>
  /\ inv' = [inv EXCEPT ![i] =
       IF inv[i].call.kind = "token"
       THEN Succeeded(inv[i], TokenText(tokenInfo'[1].accessToken))
       ELSE [inv[i] EXCEPT !.pc = "request",
                           !.token = tokenInfo'[1].accessToken,
                           !.nRequest = @ + 1]]
  /\ UNCHANGED <<now, hostMode, query>>

\* mutant: a failed exchange drops the cached token
ExchangeFail_ClearsCache(i, isAxios) ==
  /\ inv[i].pc = "exchange"
  /\ inv' = [inv EXCEPT ![i] =
       Failed(inv[i], TokenError(isAxios))]
  /\ tokenInfo' = <<>>
  /\ UNCHANGED <<now, hostMode, query>>

\* mutant: a failed exchange call is issued a second time
ExchangeFail_RetriesOnce(i, isAxios) ==
  /\ inv[i].pc = "exchange"
  /\ inv' = [inv EXCEPT ![i] =
       IF inv[i].nExchange < 2
       THEN [inv[i] EXCEPT !.nExchange = @ + 1]
       ELSE Failed(inv[i], TokenError(isAxios))]
  /\ UNCHANGED <<tokenInfo, now, hostMode, query>>

\* the exchange call fails
ExchangeFail(i, isAxios) ==
  /\ inv[i].pc = "exchange"
  /\ inv' = [inv EXCEPT ![i] =
       Failed(inv[i], TokenError(isAxios))]
  /\ UNCHANGED <<tokenInfo, now, hostMode, query>>

\* the remote API answers 2xx
RequestSucceed(i) ==
  /\ inv[i].pc = "request"
  /\ inv' = [inv EXCEPT ![i] = Succeeded(inv[i], JsonText(Obj))]
  /\ UNCHANGED <<tokenInfo, now, hostMode, query>>

\* mutant: a request the remote API rejects with 401 drops the cached token
RequestFail_DropsToken(i, failure) ==
  /\ inv[i].pc = "request"
  /\ inv' = [inv EXCEPT ![i] =
       Failed([inv[i] EXCEPT !.failure = <<failure>>],
              ApiError(failure.axios, failure.body, failure.message))]
  /\ tokenInfo' = IF failure.status = 401 THEN <<>> ELSE tokenInfo
  /\ UNCHANGED <<now, hostMode, query>>

\* the API request fails
RequestFail(i, failure) ==
  /\ inv[i].pc = "request"
  /\ inv' = [inv EXCEPT ![i] =
       Failed([inv[i] EXCEPT !.failure = <<failure>>],
              ApiError(failure.axios, failure.body, failure.message))]
  /\ UNCHANGED <<tokenInfo, now, hostMode, query>>

\* the scripting runtime calls back without an error
ScriptSucceed(i, result) ==
  /\ inv[i].pc = "script"
  /\ inv' = [inv EXCEPT ![i] =
       Succeeded([inv[i] EXCEPT !.returned = <<result>>],
                 ScriptText(ScriptResult(result)))]
  /\ UNCHANGED <<tokenInfo, now, hostMode, query>>

\* the scripting runtime calls back with an error
ScriptFail(i, message) ==
  /\ inv[i].pc = "script"
  /\ inv' = [inv EXCEPT ![i] =
       Failed([inv[i] EXCEPT !.reported = <<message>>], ScriptError(message))]
  /\ UNCHANGED <<tokenInfo, now, hostMode, query>>

\* the result or the error of a finished invocation is sent to the host
Respond(i) ==
  /\ inv[i].pc = "done"
  /\ inv' = [inv EXCEPT ![i] = IdleSlot]
  /\ UNCHANGED <<tokenInfo, now, hostMode, query>>

\* the host asks for the tool list: the handler answers at once
ListTools(i) ==
  /\ inv[i].pc = "idle"
  /\ MaySend(i) # {}
  /\ inv' = [inv EXCEPT ![i] =
       Succeeded([IdleSlot EXCEPT !.method = "tools/list"], ListText(ToolList))]
  /\ UNCHANGED <<tokenInfo, now, hostMode, query>>

\* time passes
Tick ==
  /\ now + TickMs <= MaxTicks * TickMs
  /\ now' = now + TickMs
  /\ UNCHANGED <<tokenInfo, inv, hostMode, query>>

(***************************************************************************)
(* SpotifyApi.buildQueryString applied to one mapping.  The mapping is the *)
(* sequence of its entries in insertion order, its keys distinct.          *)
(***************************************************************************)
ParamKeys == {"a", "b", "c", "d"}
ParamValues == {Undefined, Num(0), Num(1), Str(<<"">>), Str(<<"x">>)}
Mappings ==
  {<<>>} \cup
  UNION {{p \in [1..n -> {Entry(k, v) : k \in ParamKeys, v \in ParamValues}] :
            \A i, j \in 1..n : i # j => p[i].key # p[j].key} :
         n \in 1..MaxParams}

NoQuery == [params |-> <<>>, built |-> FALSE, out |-> EmptyQuery]

Build ==
  /\ ~query.built
  /\ query' = [query EXCEPT !.built = TRUE,
                            !.out = buildQueryString(query.params)]
  /\ UNCHANGED <<tokenInfo, now, inv, hostMode>>

\* the ways an API request fails.  An AxiosError has the status of the
\* response (0 when there is none), its body, and the error's own message;
\* any other error thrown in the try block has a message only.
ApiFailure(status, body, message) ==
  [axios |-> TRUE, status |-> status, body |-> body, message |-> message]
OtherFailure ==
  [axios |-> FALSE, status |-> 0, body |-> NoBody, message |-> "socket hang up"]
ApiFailures ==
  {OtherFailure} \cup
  {ApiFailure(401, ErrorEnvelope("The access token expired"),
              "Request failed with status code 401"),
   ApiFailure(404, OtherBody, "Request failed with status code 404"),
   ApiFailure(500, ErrorEnvelope("Server error"),
              "Request failed with status code 500"),
   ApiFailure(502, OtherBody, "Request failed with status code 502"),
   ApiFailure(0, NoBody, "Network Error")}
\* the failures followed for the calls of a host that pipelines are two
MayFail ==
  IF hostMode = "sequential" THEN ApiFailures
  ELSE {OtherFailure,
        ApiFailure(401, ErrorEnvelope("The access token expired"),
                   "Request failed with status code 401")}
\* what the scripting runtime hands to the callback when the script ran
ScriptResults == {Undefined, Str(<<"">>), Num(0), Str(<<"Track: x">>)}
\* the results followed for the calls of a host that pipelines are two
MayReturn ==
  IF hostMode = "sequential" THEN ScriptResults
  ELSE {Undefined, Str(<<"Track: x">>)}

Init ==
  /\ tokenInfo = <<>>
  /\ now = 0
  /\ inv = [i \in Slots |-> IdleSlot]
  /\ hostMode = "sequential"
  /\ query = NoQuery

InitPipelined ==
  /\ tokenInfo = <<>>
  /\ now = 0
  /\ inv = [i \in Slots |-> IdleSlot]
  /\ hostMode = "pipelined"
  /\ query = NoQuery

Next ==
  \/ \E i \in Slots : \E c \in MaySend(i) : Invoke(i, c)
  \/ \E i \in Slots, tok \in Tokens, lifetime \in Lifetimes :
       ExchangeSucceed(i, tok, lifetime)
  \/ \E i \in Slots, isAxios \in BOOLEAN : ExchangeFail(i, isAxios)
  \/ \E i \in Slots : RequestSucceed(i)
  \/ \E i \in Slots, failure \in MayFail : RequestFail(i, failure)
  \/ \E i \in Slots, result \in MayReturn : ScriptSucceed(i, result)
  \/ \E i \in Slots, message \in ScriptErrors : ScriptFail(i, message)
  \/ \E i \in Slots : Respond(i)
  \/ \E i \in Slots : ListTools(i)
  \/ Tick

Spec == Init /\ [][Next]_vars
SpecPipelined == InitPipelined /\ [][Next]_vars

\* the external call of the invocation in slot i responds
Responds(i) ==
  \/ \E tok \in Tokens, lifetime \in Lifetimes : ExchangeSucceed(i, tok, lifetime)
  \/ \E isAxios \in BOOLEAN : ExchangeFail(i, isAxios)
  \/ RequestSucceed(i)
  \/ \E failure \in MayFail : RequestFail(i, failure)
  \/ \E result \in MayReturn : ScriptSucceed(i, result)
  \/ \E message \in ScriptErrors : ScriptFail(i, message)

\* the slots whose external calls always respond in the end; the calls of the
\* first slot may stay unanswered for ever
Answered == Slots \ {Min(Slots)}

\* a host that pipelines, and external parties that answer the calls of the
\* slots in Answered
SpecAnswered ==
  InitPipelined /\ [][Next]_vars /\ \A i \in Answered : WF_vars(Responds(i))

\* buildQueryString alone, applied to every mapping
InitQuery ==
  /\ tokenInfo = <<>>
  /\ now = 0
  /\ inv = [i \in Slots |-> IdleSlot]
  /\ hostMode = "sequential"
  /\ query \in {[NoQuery EXCEPT !.params = p] : p \in Mappings}

NextQuery == Build

SpecQuery == InitQuery /\ [][NextQuery]_vars

TypeOK ==
  /\ Len(tokenInfo) <= 1
  /\ now \in 0..(MaxTicks * TickMs)
  /\ \A i \in Slots : inv[i].pc \in {"idle", "exchange", "request", "script", "done"}

(***************************************************************************)
(* Vocabulary of the properties.                                           *)
(***************************************************************************)
\* slot i took the step in which the host's call arrived
Arrived(i) == inv[i].pc = "idle" /\ inv'[i].method = "tools/call"
\* the invocation in slot s calls getAccessToken
NeedsToken(s) == s.call.kind \in {"token", "request"}
\* the invocation in slot s issued no external call at all
NoExternalCall(s) == s.nExchange = 0 /\ s.nRequest = 0 /\ s.nScript = 0
\* the cache holds a token whose lifetime has not ended
CacheFresh == tokenInfo # <<>> /\ now < tokenInfo[1].expiresAt
\* the token the invocation in slot s got from getAccessToken
ReturnedToken(s) == IF s.call.kind = "token" THEN s.result.tok ELSE s.token

(***************************************************************************)
(* C1: getAccessToken, called while the cache holds a token and            *)
(* now < expiresAt, returns the cached accessToken, issues no exchange     *)
(* call and leaves the cache unchanged, at every such call.                *)
(***************************************************************************)
C1_Step ==
  \A i \in Slots :
    (Arrived(i) /\ NeedsToken(inv'[i]) /\ CacheFresh) =>
      /\ inv'[i].nExchange = 0
      /\ inv'[i].pc = IF inv'[i].call.kind = "token" THEN "done" ELSE "request"
      /\ inv'[i].err = NoErr
      /\ ReturnedToken(inv'[i]) = tokenInfo[1].accessToken
      /\ tokenInfo' = tokenInfo
C1_CachedTokenReturned == [][C1_Step]_vars

\* a get_access_token call was answered from the cache, after the clock moved
C1_Witness ==
  \E i \in Slots :
    /\ inv[i].tool = "get_access_token"
    /\ inv[i].pc = "done"
    /\ inv[i].nExchange = 0
    /\ inv[i].result.kind = "token"
    /\ now > 0
    /\ CacheFresh

(***************************************************************************)
(* C2: getAccessToken, called while the cache is empty or                  *)
(* now >= expiresAt, issues exactly one exchange call; when that call      *)
(* succeeds both cache fields are replaced, accessToken by the server's    *)
(* token and expiresAt by the time of the response plus the server's       *)
(* lifetime in seconds times 1000, and the new token is returned.          *)
(***************************************************************************)
C2_Step ==
  \A i \in Slots :
    /\ (Arrived(i) /\ NeedsToken(inv'[i]) /\ ~CacheFresh) =>
         inv'[i].pc = "exchange" /\ inv'[i].nExchange = 1 /\ inv'[i].nRequest = 0
    /\ (inv[i].pc = "exchange" /\ inv'[i].pc # "exchange") =>
         /\ inv'[i].nExchange = 1
         /\ inv'[i].err = NoErr =>
              /\ \E tok \in Tokens, lifetime \in Lifetimes :
                   tokenInfo' = <<[accessToken |-> tok,
                                   expiresAt |-> now + lifetime * 1000]>>
              /\ ReturnedToken(inv'[i]) = tokenInfo'[1].accessToken
              /\ inv'[i].pc = IF inv'[i].call.kind = "token" THEN "done" ELSE "request"
    /\ (inv[i].pc = "request" /\ inv'[i].pc = "done") =>
         inv'[i].nExchange = inv[i].nExchange
C2_RenewalOnMissOrExpiry == [][C2_Step]_vars

\* a call found an expired token in the cache, renewed it and returned the
\* new token, which differs from the old one
C2_Witness ==
  \E i \in Slots :
    /\ inv[i].tool = "get_access_token"
    /\ inv[i].pc = "done"
    /\ inv[i].nExchange = 1
    /\ inv[i].result.kind = "token"
    /\ inv[i].seen # <<>>
    /\ tokenInfo # <<>>
    /\ inv[i].result.tok = tokenInfo[1].accessToken
    /\ tokenInfo[1].accessToken # inv[i].seen[1].accessToken
    /\ tokenInfo[1].expiresAt > inv[i].seen[1].expiresAt

(***************************************************************************)
(* C3: if the exchange call fails, the invocation ends with an error and   *)
(* the cache holds exactly what it held before: nothing, or the previous   *)
(* expired token.                                                          *)
(***************************************************************************)
C3_Step ==
  \A i \in Slots :
    (inv[i].pc = "exchange" /\ inv'[i].pc # "exchange" /\ inv'[i].token = 0
       /\ inv'[i].result.kind = "none") =>
      /\ inv'[i].pc = "done"
      /\ inv'[i].err # NoErr
      /\ inv'[i].nRequest = 0
      /\ tokenInfo' = tokenInfo
C3_FailedExchangeKeepsCache == [][C3_Step]_vars

\* a renewal of an expired token failed and the expired token is still cached
C3_Witness ==
  \E i \in Slots :
    /\ inv[i].pc = "done"
    /\ inv[i].nExchange = 1
    /\ inv[i].nRequest = 0
    /\ inv[i].err # NoErr
    /\ inv[i].seen # <<>>
    /\ tokenInfo = inv[i].seen
    /\ now >= tokenInfo[1].expiresAt

(***************************************************************************)
(* C4: a tool name that is not in the dispatch table fails with            *)
(* method-not-found; the invocation issues no exchange call, no API        *)
(* request and no script execution, and the cache is unchanged.            *)
(***************************************************************************)
DeclaredTools ==
  {"get_access_token", "search", "get_artist", "get_multiple_artists",
   "get_artist_top_tracks", "get_artist_related_artists", "get_artist_albums",
   "get_album", "get_album_tracks", "get_multiple_albums", "get_track",
   "get_available_genres", "get_new_releases", "get_recommendations",
   "get_audiobook", "get_multiple_audiobooks", "get_audiobook_chapters",
   "get_playlist", "get_playlist_tracks", "get_playlist_items",
   "modify_playlist", "add_tracks_to_playlist", "remove_tracks_from_playlist",
   "get_current_user_playlists", "spotify_play_pause", "spotify_next",
   "spotify_previous", "spotify_get_current_track", "spotify_play_track"}

C4_Step ==
  \A i \in Slots :
    (Arrived(i) /\ inv'[i].tool \notin DeclaredTools) =>
      /\ inv'[i].pc = "done"
      /\ inv'[i].err.mcp
      /\ inv'[i].err.code = "MethodNotFound"
      /\ NoExternalCall(inv'[i])
      /\ tokenInfo' = tokenInfo
C4_UnknownToolRejected == [][C4_Step]_vars

\* an unknown tool was called with an argument object and rejected
C4_Witness ==
  \E i \in Slots :
    /\ inv[i].tool = UnknownTool
    /\ inv[i].hasArgs
    /\ inv[i].pc = "done"
    /\ inv[i].err.code = "MethodNotFound"

(***************************************************************************)
(* C5: a declared tool called without one of its declared-required fields  *)
(* fails with invalid-params naming a missing field, also when no argument *)
(* object is supplied at all; no handler runs.  (The statement as claimed.)*)
(***************************************************************************)
Declared(s) == {SchemaRequired(s.tool)[k] : k \in 1..Len(SchemaRequired(s.tool))}
Missing(s) == IF s.hasArgs THEN Declared(s) \ DOMAIN s.args ELSE Declared(s)
FromValidateArgs(e) ==
  e.msg # <<>> /\ e.msg[1] \in {"Missing required field", "Arguments are required"}

C5_AsClaimed ==
  \A i \in Slots :
    (inv[i].pc # "idle" /\ inv[i].tool \in DeclaredTools /\ Missing(inv[i]) # {}) =>
      /\ inv[i].pc = "done"
      /\ inv[i].err.mcp /\ inv[i].err.code = "InvalidParams"
      /\ \E f \in Missing(inv[i]) : inv[i].err.msg = <<"Missing required field", f>>
      /\ NoExternalCall(inv[i])

(***************************************************************************)
(* C5 amended: such a call fails with invalid-params and no handler runs;  *)
(* when an argument object was supplied the error names the first missing  *)
(* required field, and when none was supplied the error says that          *)
(* arguments are required and names no field.  The check is presence-only: *)
(* when every required field is present, whatever its value, validateArgs  *)
(* raises nothing.                                                         *)
(***************************************************************************)
C5_MissingFieldRejected ==
  \A i \in Slots :
    (inv[i].pc # "idle" /\ inv[i].tool \in DeclaredTools) =>
      LET req == SchemaRequired(inv[i].tool)
      IN  /\ Missing(inv[i]) # {} =>
               /\ inv[i].pc = "done"
               /\ inv[i].err.mcp /\ inv[i].err.code = "InvalidParams"
               /\ inv[i].raised = inv[i].err
               /\ NoExternalCall(inv[i])
          /\ (Missing(inv[i]) # {} /\ ~inv[i].hasArgs) =>
               inv[i].err.msg = <<"Arguments are required">>
          /\ (Missing(inv[i]) # {} /\ inv[i].hasArgs) =>
               \E k \in 1..Len(req) :
                 /\ req[k] \in Missing(inv[i])
                 /\ \A j \in 1..(k - 1) : req[j] \notin Missing(inv[i])
                 /\ inv[i].err.msg = <<"Missing required field", req[k]>>
          /\ Missing(inv[i]) = {} => ~FromValidateArgs(inv[i].raised)

\* add_tracks_to_playlist was called with an id and without uris
C5_Witness ==
  \E i \in Slots :
    /\ inv[i].tool = "add_tracks_to_playlist"
    /\ inv[i].hasArgs
    /\ "id" \in DOMAIN inv[i].args
    /\ "uris" \notin DOMAIN inv[i].args
    /\ inv[i].pc = "done"
    /\ inv[i].err.msg = <<"Missing required field", "uris">>

(***************************************************************************)
(* C6: every failing invocation reaches the host as an McpError whose kind *)
(* is invalid-params, method-not-found or internal-error: an McpError      *)
(* raised inside the try block is rethrown unchanged, any other error is   *)
(* wrapped as internal-error carrying the original description.            *)
(***************************************************************************)
C6_UniformErrors ==
  \A i \in Slots :
    (inv[i].pc = "done" /\ inv[i].raised # NoErr) =>
      /\ inv[i].err.mcp
      /\ inv[i].err.code \in {"InvalidParams", "MethodNotFound", "InternalError"}
      /\ inv[i].result = NoResult
      /\ inv[i].raised.mcp => inv[i].err = inv[i].raised
      /\ ~inv[i].raised.mcp =>
           /\ inv[i].err.code = "InternalError"
           /\ inv[i].err.msg =
                <<"Unexpected error processing tool", inv[i].tool>> \o inv[i].raised.msg

\* a present-but-null id raised a TypeError, which reached the host wrapped
\* as an internal error
C6_Witness ==
  \E i \in Slots :
    /\ inv[i].pc = "done"
    /\ "id" \in DOMAIN inv[i].args
    /\ inv[i].args.id = Null
    /\ inv[i].raised.code = "TypeError"
    /\ inv[i].err.code = "InternalError"

(***************************************************************************)
(* C7: an invocation that ends with an invalid-params error issued no      *)
(* exchange call, no API request and no script execution.                  *)
(***************************************************************************)
C7_InvalidParamsBeforeCalls ==
  \A i \in Slots :
    inv[i].err.code = "InvalidParams" => NoExternalCall(inv[i])

\* a handler rejected its arguments while the cache held no token, so that
\* going on would have needed an exchange call
C7_Witness ==
  \E i \in Slots :
    /\ inv[i].pc = "done"
    /\ inv[i].tool = "get_recommendations"
    /\ inv[i].err.code = "InvalidParams"
    /\ ~FromValidateArgs(inv[i].err)
    /\ inv[i].seen = <<>>

(***************************************************************************)
(* Vocabulary of the handler properties.                                   *)
(***************************************************************************)
\* the handler of the invocation in slot s was called
HandlerCalled(s) == s.pc # "idle" /\ ~FromValidateArgs(s.raised)
\* the handler called SpotifyApi.makeRequest
ClientCalled(s) == s.call.kind = "request"
\* the handler threw invalid-params and nothing went out
RejectedLocally(s) ==
  /\ s.pc = "done"
  /\ s.err.mcp /\ s.err.code = "InvalidParams"
  /\ NoExternalCall(s)
EffLimit(s) == IF "limit" \in DOMAIN s.args THEN s.args.limit.n ELSE 20
EffOffset(s) == IF "offset" \in DOMAIN s.args THEN s.args.offset.n ELSE 0
\* the query string of the request holds key=<n>
Carries(s, key, n) ==
  \E k \in 1..Len(s.call.req.qs.pairs) :
    /\ s.call.req.qs.pairs[k].key = key
    /\ s.call.req.qs.pairs[k].val = Str(<<ToString(n)>>)
PagedTools == {"get_album_tracks", "get_artist_albums", "get_new_releases"}
PageInRange(s) == 1 <= EffLimit(s) /\ EffLimit(s) <= 50 /\ EffOffset(s) >= 0

IdIsString(s) == "id" \in DOMAIN s.args /\ s.args.id.type = "string"

BulkTools == {"get_multiple_artists", "get_multiple_albums", "get_multiple_audiobooks"}
BulkMax(tool) == IF tool = "get_multiple_albums" THEN 20 ELSE 50

C9_BulkBounds ==
  \A i \in Slots :
    (HandlerCalled(inv[i]) /\ inv[i].tool \in BulkTools) =>
      LET ids == Get(inv[i].args, "ids")
          isList == ids.type = "array"
          n == Len(ids.items)
      IN  /\ ClientCalled(inv[i]) <=>
               (isList /\ 1 <= n /\ n <= BulkMax(inv[i].tool))
          /\ (isList /\ (n = 0 \/ n > BulkMax(inv[i].tool))) =>
               RejectedLocally(inv[i])
          /\ (ClientCalled(inv[i]) /\ inv[i].pc = "request") => inv[i].nRequest = 1

\* get_multiple_albums with exactly 20 ids reached the remote API
C9_Witness ==
  \E i \in Slots :
    /\ inv[i].tool = "get_multiple_albums"
    /\ Get(inv[i].args, "ids").type = "array"
    /\ Len(Get(inv[i].args, "ids").items) = 20
    /\ inv[i].pc = "request"
    /\ inv[i].nRequest = 1

(***************************************************************************)
(* C10: get_recommendations fails with invalid-params and no network call  *)
(* when all three seed lists are empty or absent or when limit (default    *)
(* 20) is outside [1,100]; otherwise it issues one request whose query     *)
(* holds exactly the non-empty seed lists and the limit.                   *)
(***************************************************************************)
SeedKeys == {"seed_tracks", "seed_artists", "seed_genres"}
NonEmptySeeds(s) ==
  {k \in SeedKeys : k \in DOMAIN s.args /\ Len(s.args[k].items) > 0}
QueryKeys(s) ==
  {s.call.req.qs.pairs[k].key : k \in 1..Len(s.call.req.qs.pairs)}

C10_Recommendations ==
  \A i \in Slots :
    (HandlerCalled(inv[i]) /\ inv[i].tool = "get_recommendations") =>
      IF NonEmptySeeds(inv[i]) = {} \/ EffLimit(inv[i]) < 1 \/ EffLimit(inv[i]) > 100
      THEN RejectedLocally(inv[i])
      ELSE /\ ClientCalled(inv[i])
           /\ inv[i].call.req.route = "/recommendations"
           /\ QueryKeys(inv[i]) = NonEmptySeeds(inv[i]) \cup {"limit"}
           /\ Len(inv[i].call.req.qs.pairs) = Cardinality(QueryKeys(inv[i]))
           /\ Carries(inv[i], "limit", EffLimit(inv[i]))
           /\ inv[i].nRequest <= 1
           /\ inv[i].pc = "request" => inv[i].nRequest = 1

\* seed_genres alone, with empty seed_tracks, reached the remote API
C10_Witness ==
  \E i \in Slots :
    /\ inv[i].tool = "get_recommendations"
    /\ NonEmptySeeds(inv[i]) = {"seed_genres"}
    /\ "seed_tracks" \in DOMAIN inv[i].args
    /\ inv[i].pc = "request"
    /\ inv[i].nRequest = 1
    /\ QueryKeys(inv[i]) = {"seed_genres", "limit"}

(***************************************************************************)
(* C11: get_artist_top_tracks without a market, or with an empty one,      *)
(* fails with invalid-params and issues no exchange call and no API        *)
(* request, although only id is declared required; with a market it issues *)
(* exactly one request to the artist's top-tracks endpoint carrying that   *)
(* market.  (The statement as claimed.)                                    *)
(***************************************************************************)
HasMarket(s) ==
  /\ "market" \in DOMAIN s.args
  /\ s.args.market.type = "string"
  /\ s.args.market.segs # <<"">>
\* the request goes to the top-tracks endpoint of the artist and its path
\* ends with ?market=<the market given>
TopTracksRequest(s) ==
  /\ ClientCalled(s)
  /\ s.call.req.method = "GET"
  /\ s.call.req.route = "/artists/{id}/top-tracks"
  /\ s.call.req.inline.prefix = "?"
  /\ Len(s.call.req.inline.pairs) = 1
  /\ s.call.req.inline.pairs[1].key = "market"
  /\ s.call.req.inline.pairs[1].val = s.args.market
  /\ s.call.req.qs.pairs = <<>>
  /\ s.nRequest <= 1
  /\ s.pc = "request" => s.nRequest = 1

ExpectedKind(tool) ==
  CASE tool \in {"get_artist", "get_artist_top_tracks",
                 "get_artist_related_artists", "get_artist_albums"} -> "artist"
    [] tool \in {"get_album", "get_album_tracks"} -> "album"
    [] tool = "get_track" -> "track"
    [] tool \in {"get_audiobook", "get_audiobook_chapters"} -> "audiobook"
    [] tool \in {"get_playlist", "get_playlist_tracks", "get_playlist_items",
                 "modify_playlist", "add_tracks_to_playlist",
                 "remove_tracks_from_playlist"} -> "playlist"
    [] OTHER -> "none"
\* the invocation in slot s normalised a string id and built its request
Normalised(s) ==
  /\ ExpectedKind(s.tool) # "none"
  /\ ClientCalled(s)
  /\ IdIsString(s)
\* "<scheme>:<kind>:<X>": at least two colons
Prefixed(id) == Len(id.segs) >= 3
\* the text after the second colon, colons included
Remainder(id) == [id EXCEPT !.segs = SubSeq(id.segs, 3, Len(id.segs))]
\* the text between the second colon and the third, if any
ThirdSegment(id) == [id EXCEPT !.segs = <<id.segs[3]>>]

(***************************************************************************)
(* C12: for every identifier "<scheme>:<kind>:<X>" normalisation returns   *)
(* exactly X, the whole remainder after the second colon, also when X      *)
(* holds colons; for every other string it returns the string unchanged.   *)
(* (The statement as claimed.)                                             *)
(***************************************************************************)
C12_AsClaimed ==
  \A i \in Slots :
    Normalised(inv[i]) =>
      inv[i].call.req.id =
        IF Prefixed(inv[i].args.id) THEN Remainder(inv[i].args.id)
        ELSE inv[i].args.id

(***************************************************************************)
(* C12 amended: for an identifier that starts with "spotify:<kind>:",      *)
(* <kind> being the kind the handler expects, normalisation returns the    *)
(* third colon-delimited segment: X when X holds no colon, and the part of *)
(* X before its first colon otherwise.  Every other string, the URIs of    *)
(* another scheme or another kind included, is returned unchanged.         *)
(***************************************************************************)
C12_Normalisation ==
  \A i \in Slots :
    Normalised(inv[i]) =>
      LET id == inv[i].args.id
      IN  inv[i].call.req.id =
            IF /\ Prefixed(id)
               /\ id.segs[1] = "spotify"
               /\ id.segs[2] = ExpectedKind(inv[i].tool)
            THEN ThirdSegment(id)
            ELSE id

\* get_track was called with "spotify:track:abc:def" and asks for "abc"
C12_Witness ==
  \E i \in Slots :
    /\ inv[i].tool = "get_track"
    /\ Get(inv[i].args, "id") = Str(<<"spotify", "track", "abc", "def">>)
    /\ inv[i].pc = "request"
    /\ inv[i].call.req.id = Str(<<"abc">>)

(***************************************************************************)
(* C13: buildQueryString returns the empty string when no key of the       *)
(* mapping has a defined value, and otherwise "?" followed by one          *)
(* key=value pair for each key whose value is not undefined, in the        *)
(* insertion order of the mapping, the undefined ones left out;            *)
(* build({a: 1, b: undefined, c: "x"}) is "?a=1&c=x" and build({}) is "".  *)
(***************************************************************************)
IsDefined(e) == e.val.type # "undefined"
\* the text of a value in a pair
TextOf(v) == IF v.type = "number" THEN [v EXCEPT !.type = "string", !.n = 0,
                                                   !.segs = <<ToString(v.n)>>]
             ELSE v
\* the pairs of a query string as <<key, text>>
PairsOf(out) == [k \in 1..Len(out.pairs) |-> <<out.pairs[k].key, out.pairs[k].val>>]

C13_BuildQueryString ==
  query.built =>
    LET kept == SelectSeq(query.params, IsDefined)
    IN  /\ kept = <<>> => (query.out.prefix = "" /\ query.out.pairs = <<>>)
        /\ kept # <<>> =>
             /\ query.out.prefix = "?"
             /\ PairsOf(query.out) =
                  [k \in 1..Len(kept) |-> <<kept[k].key, TextOf(kept[k].val)>>]
        /\ query.params = <<Entry("a", Num(1)), Entry("b", Undefined),
                            Entry("c", Str(<<"x">>))>> =>
             /\ query.out.prefix = "?"
             /\ PairsOf(query.out) = << <<"a", Str(<<"1">>)>>, <<"c", Str(<<"x">>)>> >>

\* build({a: 1, b: undefined, c: "x"}) was computed
C13_Witness ==
  /\ query.built
  /\ query.params = <<Entry("a", Num(1)), Entry("b", Undefined),
                      Entry("c", Str(<<"x">>))>>
  /\ Len(query.out.pairs) = 2

(***************************************************************************)
(* C14: spotify_play_track with a uri that does not start with             *)
(* "spotify:track:" (such as "not-a-uri") fails with invalid-params and    *)
(* the scripting runtime is never invoked; with a uri that has the prefix  *)
(* (such as "spotify:track:abc") the runtime is invoked exactly once.      *)
(***************************************************************************)
HasTrackPrefix(s) ==
  /\ "uri" \in DOMAIN s.args
  /\ s.args.uri.type = "string"
  /\ Len(s.args.uri.segs) >= 3
  /\ SubSeq(s.args.uri.segs, 1, 2) = <<"spotify", "track">>

ScriptFailed(s) == s.pc = "done" /\ s.reported # <<>>
\* error code -1728, "Can't get application"
AppNotRunning(s) ==
  s.reported = <<"execution error: Can't get application (-1728)">>
\* the error says what the runtime reported
CarriesReport(s) ==
  /\ Len(s.err.msg) = 2
  /\ s.err.msg[1] = "AppleScript execution failed"
  /\ s.err.msg[2] = IF s.reported = <<"">> THEN "Unknown error" ELSE s.reported[1]

C15_AsClaimed ==
  \A i, j \in Slots :
    (ScriptFailed(inv[i]) /\ ScriptFailed(inv[j])) =>
      /\ (AppNotRunning(inv[i]) /\ ~AppNotRunning(inv[j])) =>
           inv[i].err.code # inv[j].err.code
      /\ ~AppNotRunning(inv[j]) => CarriesReport(inv[j])

(***************************************************************************)
(* C15 amended: both errors are of the internal-error kind and differ in   *)
(* their message only.  For the not-running code the message is the fixed  *)
(* text that the application was not found or is not running; for every    *)
(* other runtime error it is the execution-failed text followed by the     *)
(* runtime's message, or by "Unknown error" when the runtime gave none.    *)
(***************************************************************************)
C15_ScriptErrors ==
  \A i, j \in Slots :
    (ScriptFailed(inv[i]) /\ ScriptFailed(inv[j])) =>
      /\ inv[i].err.mcp /\ inv[i].err.code = "InternalError"
      /\ inv[i].err = inv[i].raised
      /\ inv[i].result = NoResult
      /\ AppNotRunning(inv[i]) =>
           inv[i].err.msg = <<"Spotify application not found or not running.">>
      /\ ~AppNotRunning(inv[j]) => CarriesReport(inv[j])
      /\ (AppNotRunning(inv[i]) /\ ~AppNotRunning(inv[j])) =>
           /\ inv[i].err.code = inv[j].err.code
           /\ inv[i].err.msg # inv[j].err.msg

\* one script failed because the application was not running while another
\* failed for a syntax error
C15_Witness ==
  \E i, j \in Slots :
    /\ ScriptFailed(inv[i]) /\ AppNotRunning(inv[i])
    /\ ScriptFailed(inv[j])
    /\ inv[j].reported = <<"execution error: syntax (-2741)">>
    /\ inv[j].err.msg = <<"AppleScript execution failed", "execution error: syntax (-2741)">>

(***************************************************************************)
(* C16: when an API request fails at the transport level, makeRequest      *)
(* raises an error of the internal/upstream kind whatever the HTTP status; *)
(* its message carries the error.message of the remote error envelope when *)
(* there is one, and the generic transport error message when the envelope *)
(* is absent or malformed.                                                 *)
(***************************************************************************)
\* the API request of the invocation in slot s failed in the HTTP client
TransportFailed(s) == s.failure # <<>> /\ s.failure[1].axios
HasEnvelope(f) == f.body.shape = "envelope"

C16_UpstreamError ==
  \A i \in Slots :
    TransportFailed(inv[i]) =>
      LET f == inv[i].failure[1]
      IN  /\ inv[i].pc = "done"
          /\ inv[i].raised.mcp
          /\ inv[i].raised.code = "InternalError"
          /\ inv[i].raised.msg[1] = "Spotify API error"
          /\ HasEnvelope(f) => inv[i].raised.msg[2] = f.body.text
          /\ ~HasEnvelope(f) => inv[i].raised.msg[2] = f.message
          /\ inv[i].err = inv[i].raised
          /\ inv[i].nRequest = 1

\* a 401 whose envelope says that the token expired became an internal error
\* with that message
C16_Witness ==
  \E i \in Slots :
    /\ TransportFailed(inv[i])
    /\ inv[i].failure[1].status = 401
    /\ inv[i].err.code = "InternalError"
    /\ inv[i].err.msg = <<"Spotify API error", "The access token expired">>

(***************************************************************************)
(* C17: the tool names the listing returns and the names the invocation    *)
(* dispatches on are the same set, each name once; for every tool the      *)
(* fields the dispatcher checks for presence are exactly the fields its    *)
(* listed schema declares required; and the listing returns the same       *)
(* ordered list at every call.                                             *)
(***************************************************************************)
\* the list request in slot s was answered
Listed(s) == s.method = "tools/list" /\ s.pc = "done"
ListOf(s) == s.result.val.items
ListedNames(list) == {list[k].name : k \in 1..Len(list)}
\* the fields the dispatcher checks before it calls the handler of a tool
CheckedFields(tool) == IF ValidatesRaw(tool) THEN RequiredFields(tool) ELSE <<>>
\* the first and the last name of the list
FirstListed == "get_access_token"
LastListed == "spotify_play_track"

C17_Step ==
  \A i \in Slots :
    (Listed(inv'[i]) /\ ~Listed(inv[i])) =>
      LET list == ListOf(inv'[i])
      IN  /\ ListedNames(list) = DispatchTable
          /\ Cardinality(ListedNames(list)) = Len(list)
          /\ \A k \in 1..Len(list) : list[k].required = CheckedFields(list[k].name)
          /\ Len(list) = 29
          /\ list[1].name = FirstListed
          /\ list[Len(list)].name = LastListed
          /\ inv'[i].err = NoErr
          /\ NoExternalCall(inv'[i])
          /\ \A j \in Slots : Listed(inv[j]) => ListOf(inv[j]) = list
C17_ListingMatchesDispatch == [][C17_Step]_vars

\* two list requests were answered, with 29 tools each
C17_Witness ==
  \E i, j \in Slots :
    /\ i # j
    /\ Listed(inv[i]) /\ Listed(inv[j])
    /\ Len(ListOf(inv[i])) = 29
    /\ ListOf(inv[j])[22] = [name |-> "add_tracks_to_playlist", required |-> <<"id", "uris">>]

(***************************************************************************)
(* C18: nothing is retried.  One invocation issues at most one exchange    *)
(* call and at most one API request, or at most one script execution, and  *)
(* once one of them has failed it issues no further exchange call, API     *)
(* request or script execution before the failure is reported.             *)
(***************************************************************************)
Waiting(s) == s.pc \in {"exchange", "request", "script"}
CallsOf(s) == <<s.nExchange, s.nRequest, s.nScript>>

C18_Step ==
  \A i \in Slots :
    /\ inv'[i].nExchange <= 1 /\ inv'[i].nRequest <= 1 /\ inv'[i].nScript <= 1
    /\ inv'[i].nScript = 1 => (inv'[i].nExchange = 0 /\ inv'[i].nRequest = 0)
    /\ (Waiting(inv[i]) /\ inv'[i].raised # NoErr) =>
         /\ inv'[i].pc = "done"
         /\ CallsOf(inv'[i]) = CallsOf(inv[i])
    /\ (inv[i].pc = "done" /\ inv'[i].pc # "idle") =>
         CallsOf(inv'[i]) = CallsOf(inv[i])
C18_NoRetry == [][C18_Step]_vars

\* the exchange call succeeded, the API request failed, and the failure was
\* reported after one call of each
C18_Witness ==
  \E i \in Slots :
    /\ inv[i].pc = "done"
    /\ inv[i].failure # <<>>
    /\ inv[i].err # NoErr
    /\ inv[i].nExchange = 1
    /\ inv[i].nRequest = 1

(***************************************************************************)
(* C19: if every external call of an invocation is answered in the end     *)
(* (weak fairness of the answers to its slot), the invocation completes in *)
(* the end, with exactly one outcome: one result or one error, never both  *)
(* and never a second one.  An invocation whose external call is never     *)
(* answered stays pending and keeps no other invocation from completing.   *)
(***************************************************************************)
Pending(i) == inv[i].pc \in {"exchange", "request", "script"}
Completed(i) == inv[i].pc = "done"
\* exactly one of result and error
OneOutcome(s) == (s.result # NoResult) # (s.err # NoErr)

C19_Outcome ==
  \A i \in Slots :
    /\ inv[i].pc = "done" => OneOutcome(inv[i])
    /\ inv[i].pc # "done" => (inv[i].result = NoResult /\ inv[i].err = NoErr)
C19_Step ==
  \A i \in Slots :
    /\ inv[i].pc = "done" => (inv'[i] = inv[i] \/ inv'[i] = IdleSlot)
    /\ (Pending(i) /\ inv'[i] # inv[i]) =>
         (inv'[i].pc \in {"request", "done"} /\ inv'[i].pc # inv[i].pc)
C19_Completes ==
  /\ []C19_Outcome
  /\ [][C19_Step]_vars
  /\ \A i \in Slots : WF_vars(Responds(i)) => (Pending(i) ~> Completed(i))

\* the first invocation still waits for its script while a later one has
\* got its token, made its API request and completed
C19_Witness ==
  \E i \in Answered :
    /\ inv[Min(Slots)].pc = "script"
    /\ inv[i].pc = "done"
    /\ inv[i].nExchange = 1
    /\ inv[i].nRequest = 1
    /\ inv[i].result.kind = "json"

(***************************************************************************)
(* C20: renewals are not coalesced.  Every invocation that calls           *)
(* getAccessToken while the cache holds no valid token issues an exchange  *)
(* call of its own, also while the exchange calls of other invocations are *)
(* in flight, so that N concurrent invocations issue up to N exchange      *)
(* calls for one expiry; and each caller returns the token that its own    *)
(* exchange call obtained.                                                 *)
(***************************************************************************)
\* the exchange call of slot i was answered with a token in this step
Renewed(i) ==
  /\ inv[i].pc = "exchange"
  /\ inv'[i].pc # "exchange"
  /\ inv'[i].raised = NoErr

C20_Step ==
  \A i \in Slots :
    /\ (Arrived(i) /\ NeedsToken(inv'[i]) /\ ~CacheFresh) =>
         /\ inv'[i].pc = "exchange"
         /\ inv'[i].nExchange = 1
         /\ \A j \in Slots \ {i} : inv'[j] = inv[j]
    /\ Renewed(i) =>
         /\ inv'[i].nExchange = 1
         /\ tokenInfo' # <<>>
         /\ ReturnedToken(inv'[i]) = tokenInfo'[1].accessToken
         /\ \A j \in Slots \ {i} : inv'[j] = inv[j]
C20_RenewalsNotCoalesced == [][C20_Step]_vars

\* two invocations found the same expired token, each issued an exchange
\* call, and each returned the token of its own call
C20_Witness ==
  \E i, j \in Slots :
    /\ inv[i].pc = "done" /\ inv[j].pc = "done"
    /\ inv[i].tool = "get_access_token" /\ inv[j].tool = "get_access_token"
    /\ inv[i].nExchange = 1 /\ inv[j].nExchange = 1
    /\ inv[i].seen # <<>>
    /\ inv[i].seen = inv[j].seen
    /\ inv[i].result.kind = "token" /\ inv[j].result.kind = "token"
    /\ inv[i].result.tok # inv[j].result.tok
    /\ inv[i].result.tok # inv[i].seen[1].accessToken

(***************************************************************************)
(* C21: under every interleaving of concurrent getAccessToken calls and    *)
(* exchange answers, the cache is empty or holds one complete TokenInfo.   *)
(* The cache changes only in the step in which an exchange call is         *)
(* answered with a token, and that step writes both fields at once: the    *)
(* token this exchange obtained and the time of this step plus a lifetime  *)
(* the server declares, in milliseconds.  Every answered exchange          *)
(* overwrites whatever the cache held, so the cache always holds the pair  *)
(* of the renewal that completed last.                                     *)
(***************************************************************************)
\* the instants the clock has shown so far
PastTimes == {k * TickMs : k \in 0..(now \div TickMs)}
\* the TokenInfo a renewal answered at time t may write
Pairs(t) == {[accessToken |-> tok, expiresAt |-> t + l * MsPerSecond] :
               tok \in Tokens, l \in Lifetimes}

C21_Cache ==
  \/ tokenInfo = <<>>
  \/ /\ Len(tokenInfo) = 1
     /\ \E t \in PastTimes : tokenInfo[1] \in Pairs(t)
C21_Step ==
  /\ tokenInfo' # tokenInfo => \E i \in Slots : Renewed(i)
  /\ \A i \in Slots :
       Renewed(i) =>
         /\ Len(tokenInfo') = 1
         /\ tokenInfo'[1] \in Pairs(now)
         /\ tokenInfo'[1].accessToken = ReturnedToken(inv'[i])
C21_CacheIsOnePair == []C21_Cache /\ [][C21_Step]_vars

\* two renewals were in flight together and both have completed; the cache
\* holds the token of one of them, written over the token of the other,
\* with an expiry computed at a later time than the call arrived
C21_Witness ==
  \E i, j \in Slots :
    /\ i # j
    /\ inv[i].pc = "done" /\ inv[j].pc = "done"
    /\ inv[i].nExchange = 1 /\ inv[j].nExchange = 1
    /\ inv[i].result.kind = "token" /\ inv[j].result.kind = "token"
    /\ inv[i].result.tok # inv[j].result.tok
    /\ tokenInfo # <<>>
    /\ tokenInfo[1].accessToken = inv[j].result.tok
    /\ tokenInfo[1].expiresAt > MaxTicks * TickMs

(***************************************************************************)
(* C22: makeRequest issues the API request only after getAccessToken has   *)
(* returned in the same invocation, either at once from a cache that holds *)
(* a valid token or after this invocation's own exchange call was          *)
(* answered, and the request carries exactly the token getAccessToken      *)
(* returned.  If the exchange call fails, no API request is issued and the *)
(* invocation reports the error of the token acquisition, not an error of  *)
(* the remote API.                                                         *)
(***************************************************************************)
\* the invocation in slot i issues its API request in this step
Issues(i) == inv[i].pc # "request" /\ inv'[i].pc = "request"
\* the exchange call of slot i failed in this step
RenewalFailed(i) ==
  /\ inv[i].pc = "exchange"
  /\ inv'[i].pc # "exchange"
  /\ inv'[i].raised # NoErr
\* the messages of the errors getAccessToken throws
AcquisitionErrors == {"Failed to get Spotify access token", "token exchange"}

C22_Bearer ==
  \A i \in Slots :
    /\ inv[i].nRequest > 0 =>
         (inv[i].call.kind = "request" /\ inv[i].token \in Tokens)
    /\ inv[i].pc = "request" => inv[i].nRequest = 1
C22_Step ==
  \A i \in Slots :
    /\ Issues(i) =>
         /\ inv'[i].call.kind = "request"
         /\ inv'[i].nRequest = 1
         /\ \/ /\ Arrived(i)
               /\ CacheFresh
               /\ inv'[i].nExchange = 0
               /\ inv'[i].token = tokenInfo[1].accessToken
            \/ /\ Renewed(i)
               /\ inv'[i].nExchange = 1
               /\ inv'[i].token = tokenInfo'[1].accessToken
    /\ RenewalFailed(i) =>
         /\ inv'[i].pc = "done"
         /\ inv'[i].nRequest = 0
         /\ inv'[i].token = 0
         /\ inv'[i].result = NoResult
         /\ inv'[i].raised.msg[1] \in AcquisitionErrors
         /\ inv'[i].err.code = "InternalError"
         /\ inv'[i].err.msg[1] # "Spotify API error"
         /\ inv'[i].err.msg[Len(inv'[i].err.msg)] = inv'[i].raised.msg[1]
C22_RequestAfterToken == []C22_Bearer /\ [][C22_Step]_vars

\* an API tool found an expired token, renewed it, sent the new token with
\* its request and got the answer
C22_Witness ==
  \E i \in Slots :
    /\ inv[i].pc = "done"
    /\ inv[i].call.kind = "request"
    /\ inv[i].result.kind = "json"
    /\ inv[i].seen # <<>>
    /\ inv[i].nExchange = 1
    /\ inv[i].token # inv[i].seen[1].accessToken
    /\ tokenInfo # <<>>
    /\ inv[i].token = tokenInfo[1].accessToken

(***************************************************************************)
(* C23: for the tools whose listed input schema declares a minimum and a   *)
(* maximum for limit or a minimum for offset, an invocation that reaches   *)
(* the handler with a limit or an offset outside the declared range fails  *)
(* with invalid-params before any network call.  (The statement as         *)
(* claimed, for the tools whose handlers are among the sources:            *)
(* get_current_user_playlists is listed with a range as well, but the body *)
(* of its handler is not there to be examined.)                            *)
(***************************************************************************)
\* the tools whose inputSchema declares a range, and the declared maximum
RangedTools ==
  {"search", "get_artist_albums", "get_album_tracks", "get_new_releases",
   "get_recommendations", "get_audiobook_chapters", "get_playlist_tracks",
   "get_playlist_items"}
DeclaredMaximum(tool) ==
  IF tool \in {"get_recommendations", "get_playlist_tracks", "get_playlist_items"}
  THEN 100 ELSE 50
DeclaresOffset(tool) == tool \notin {"search", "get_recommendations"}
\* the invocation gives a number outside the range its schema declares
OutsideDeclared(s) ==
  \/ /\ Get(s.args, "limit").type = "number"
     /\ \/ s.args.limit.n < 1
        \/ s.args.limit.n > DeclaredMaximum(s.tool)
  \/ /\ DeclaresOffset(s.tool)
     /\ Get(s.args, "offset").type = "number"
     /\ s.args.offset.n < 0

C23_AsClaimed ==
  \A i \in Slots :
    (HandlerCalled(inv[i]) /\ inv[i].tool \in RangedTools
       /\ Get(inv[i].args, "id").type \in {"undefined", "string"}
       /\ OutsideDeclared(inv[i])) =>
      RejectedLocally(inv[i])

(***************************************************************************)
(* C24: an invocation of get_current_user_playlists, with an argument      *)
(* object or without one, reaches the playlist handler, which issues one   *)
(* GET request to /me/playlists carrying the token getAccessToken          *)
(* returned; when the remote API answers, the body of the answer is the    *)
(* tool result.                                                            *)
(***************************************************************************)
UserPlaylists(s) == s.pc # "idle" /\ s.tool = "get_current_user_playlists"

ScriptRan(s) == s.pc = "done" /\ s.returned # <<>>
Marker == Str(<<"Success">>)
\* value.toString() of the values the runtime hands over
Rendered(v) == IF v.type = "number" THEN Str(<<ToString(v.n)>>) ELSE v

C25_AsClaimed ==
  \A i \in Slots :
    ScriptRan(inv[i]) =>
      /\ inv[i].err = NoErr
      /\ inv[i].result.kind = "text"
      /\ inv[i].result.val =
           IF inv[i].returned[1].type \in {"undefined", "null"}
           THEN Marker
           ELSE Rendered(inv[i].returned[1])

(***************************************************************************)
(* C26: a handler strips the prefix of an identifier only when the string  *)
(* starts with "spotify:<kind>:" for the kind the handler itself expects,  *)
(* and then keeps the third colon-delimited segment.  Every other string,  *)
(* a URI of another kind included ("spotify:album:X" given to the track    *)
(* handler), goes unchanged into the request sent to the remote API.  The  *)
(* same holds for each element of the id list of a bulk tool.              *)
(***************************************************************************)
\* id starts with "spotify:<kind>:"
OwnKind(id, kind) ==
  Len(id.segs) >= 3 /\ id.segs[1] = "spotify" /\ id.segs[2] = kind
\* what goes into the request for id
SentFor(id, kind) == IF OwnKind(id, kind) THEN <<id.segs[3]>> ELSE id.segs
BulkKind(tool) ==
  CASE tool = "get_multiple_artists" -> "artist"
    [] tool = "get_multiple_albums" -> "album"
    [] OTHER -> "audiobook"
\* the invocation in slot s sent a list of two ids
SentPair(s) ==
  /\ s.tool \in BulkTools
  /\ ClientCalled(s)
  /\ Get(s.args, "ids").type = "array"
  /\ Len(s.args.ids.items) = 2

C26_OwnKindOnly ==
  \A i \in Slots :
    /\ Normalised(inv[i]) =>
         /\ inv[i].call.req.id.type = "string"
         /\ inv[i].call.req.id.segs =
              SentFor(inv[i].args.id, ExpectedKind(inv[i].tool))
         /\ ~OwnKind(inv[i].args.id, ExpectedKind(inv[i].tool)) =>
              inv[i].call.req.id = inv[i].args.id
    /\ SentPair(inv[i]) =>
         LET ids == inv[i].args.ids.items
             kind == BulkKind(inv[i].tool)
         IN  inv[i].call.req.inline.pairs[1].val.segs =
               SubSeq(SentFor(ids[1], kind), 1, Len(SentFor(ids[1], kind)) - 1)
               \o <<SentFor(ids[1], kind)[Len(SentFor(ids[1], kind))]
                    \o "," \o SentFor(ids[2], kind)[1]>>
               \o Tail(SentFor(ids[2], kind))

\* get_track was given an album URI and sends it as it is
C26_Witness ==
  \E i \in Slots :
    /\ inv[i].tool = "get_track"
    /\ Get(inv[i].args, "id") = Str(<<"spotify", "album", "abc">>)
    /\ inv[i].pc = "request"
    /\ inv[i].call.req.id = Str(<<"spotify", "album", "abc">>)

(***************************************************************************)
(* C27: every request path a handler passes to the HTTP client holds at    *)
(* most one "?": the path is the route, then the query the handler writes  *)
(* into the path itself, then the output of buildQueryString, and at most  *)
(* one of the two begins with "?".  (The statement as claimed.)            *)
(***************************************************************************)
\* the number of "?" delimiters in the path of the request of slot s
QueryMarks(s) ==
  (IF s.call.req.inline.prefix = "?" THEN 1 ELSE 0)
  + (IF s.call.req.qs.prefix = "?" THEN 1 ELSE 0)

C27_AsClaimed ==
  \A i \in Slots : ClientCalled(inv[i]) => QueryMarks(inv[i]) <= 1

(***************************************************************************)
(* C28: the query of a search is URL-encoded exactly once on its way into  *)
(* the request path: one decoding step on the q parameter of the request   *)
(* gives back the query the caller supplied, also when the query holds a   *)
(* space or a reserved character.  A text is its characters and the number *)
(* of encoding passes over them; a pass changes nothing in a text of       *)
(* unreserved characters only.  (The statement as claimed.)                *)
(***************************************************************************)
\* the texts among the inputs that hold unreserved characters only
Unreserved(v) == v.segs \in {<<"abc">>, <<"US">>, <<"track">>}
\* the q parameter of the request of slot s
QueryParam(s) ==
  LET pairs == s.call.req.qs.pairs
  IN  pairs[CHOOSE k \in 1..Len(pairs) : pairs[k].key = "q"]
\* one decoding step on the parameter p gives the text v
DecodesTo(p, v) == p.val = v /\ (p.enc = 1 \/ Unreserved(v))

C28_AsClaimed ==
  \A i \in Slots :
    (inv[i].tool = "search" /\ ClientCalled(inv[i])
       /\ Get(inv[i].args, "query").type = "string") =>
      DecodesTo(QueryParam(inv[i]), inv[i].args.query)

(***************************************************************************)
(* C29: the script submitted for spotify_play_track is the play-by-uri     *)
(* template with the caller's uri as the content of one quoted string      *)
(* literal: whatever uri the prefix check accepts, nothing of it lies      *)
(* outside that literal, so that the scripts of two accepted uris differ   *)
(* inside the literal only.  The scripting language ends a string literal  *)
(* at the first double quote.  (The statement as claimed.)                 *)
(***************************************************************************)
\* the parts of a text between its double quotes, for the texts of the inputs
QuoteSplit(text) ==
  IF text = "abc\" & (do shell script \"id\") & \""
  THEN <<"abc", " & (do shell script ", "id", ") & ", "">>
  ELSE <<text>>
\* what the uri puts into the script after the literal has ended
OutsideLiteral(uri) == Tail(QuoteSplit(uri.segs[Len(uri.segs)]))
\* the invocation in slot s submitted the play-by-uri script
PlaysTrack(s) == s.call.kind = "script" /\ s.call.script.template = "play track"

C29_AsClaimed ==
  \A i, j \in Slots :
    (PlaysTrack(inv[i]) /\ PlaysTrack(inv[j])) =>
      /\ OutsideLiteral(inv[i].call.script.uri) = <<>>
      /\ OutsideLiteral(inv[i].call.script.uri)
           = OutsideLiteral(inv[j].call.script.uri)

(***************************************************************************)
(* C30: a failed API request leaves the token cache as it was: the step in *)
(* which the request fails, an authentication rejection of the cached      *)
(* token included, neither clears nor renews the cache.  So a later        *)
(* getAccessToken call that finds the rejected token still in the cache,   *)
(* before its expiresAt, returns that same token without an exchange call. *)
(***************************************************************************)
\* the API request of slot i failed in this step
RequestFailed(i) == inv[i].pc = "request" /\ inv'[i].failure # <<>>
\* the request of the invocation in slot s was rejected and the token it
\* carried is still the cached one
RejectedCached(s) ==
  /\ s.pc = "done"
  /\ s.failure # <<>>
  /\ tokenInfo # <<>>
  /\ s.token = tokenInfo[1].accessToken

C30_Step ==
  \A i \in Slots :
    /\ RequestFailed(i) =>
         /\ tokenInfo' = tokenInfo
         /\ inv'[i].pc = "done"
         /\ inv'[i].nExchange = inv[i].nExchange
         /\ inv'[i].nRequest = 1
    /\ (RejectedCached(inv[i]) /\ inv'[i].pc = "idle") => tokenInfo' = tokenInfo
    /\ \A j \in Slots \ {i} :
         (RejectedCached(inv[i]) /\ Arrived(j) /\ NeedsToken(inv'[j])
            /\ now < tokenInfo[1].expiresAt) =>
           /\ inv'[j].nExchange = 0
           /\ ReturnedToken(inv'[j]) = inv[i].token
           /\ tokenInfo' = tokenInfo
C30_FailedRequestKeepsCache == [][C30_Step]_vars

\* the remote API rejected a request with 401; the token the request
\* carried is still cached and valid, and another call has returned it
\* without an exchange call
C30_Witness ==
  \E i, j \in Slots :
    /\ i # j
    /\ RejectedCached(inv[i])
    /\ inv[i].failure[1].status = 401
    /\ now < tokenInfo[1].expiresAt
    /\ inv[j].pc = "done"
    /\ inv[j].tool = "get_access_token"
    /\ inv[j].nExchange = 0
    /\ inv[j].result.tok = inv[i].token
====
